---------------------------- MODULE Spec2Model ----------------------------
(***************************************************************************)
(* Model of the ActivityWatch weekly dashboard (aw-webui-lukas):           *)
(*   - AwServerApi.getDayTimelineData / getWeeklyTimeData                  *)
(*     (src/src/services/awServerApi.ts), the activity interval aggregator *)
(*   - DailyTargetsManager (useDailyTargets composable), the target        *)
(*     allocation engine.                                                  *)
(*                                                                         *)
(* Units.  A Date is an integer: local milliseconds since local midnight   *)
(* of the model's epoch day (EpochDays days after 1970-01-01), so that all *)
(* instants of a week fit TLC's integers.  Durations, which the code keeps *)
(* in seconds (milliseconds / 1000), are kept in milliseconds; hours that  *)
(* the code rounds to two decimals are kept in hundredths of an hour.      *)
(* Daylight-saving shifts and IEEE rounding are outside the model.         *)
(***************************************************************************)
EXTENDS Integers, Sequences, FiniteSets

VARIABLES
    dpc,            \* position in getDayTimelineData
    date,           \* its argument
    dayBuckets,     \* what getBuckets() resolved with at awServerApi.ts:69 (0 or 1 list)
    afkBucket,      \* the bucket found at awServerApi.ts:70 (a sequence of 0 or 1 bucket)
    afkEvents,      \* events returned by getEvents (awServerApi.ts:83)
    activePeriods,  \* awServerApi.ts:98, after the sort of line 125
    mergedPeriods,  \* awServerApi.ts:128
    dayResult,      \* value getDayTimelineData resolved with (sequence of 0 or 1)
    dayError,       \* value getDayTimelineData rejected with (sequence of 0 or 1)
    bucketRequests, \* number of GET /api/0/buckets/ requests issued
    eventRequests,  \* log of the GET .../events requests issued: [bucket, start, end]
    dayFailures,    \* number of getDayTimelineData calls that rejected
    wpc,            \* position in getWeeklyTimeData
    weekBuckets,    \* what getBuckets() resolved with at awServerApi.ts:213 (0 or 1 list)
    start,          \* the caller's start Date object
    end,            \* the caller's end Date object
    i,              \* loop counter of awServerApi.ts:227
    currentDate,    \* awServerApi.ts:223
    totalHours,     \* awServerApi.ts:224 (accumulated, in milliseconds)
    dailyBreakdown, \* awServerApi.ts:222
    weekResult,     \* value getWeeklyTimeData resolved with (sequence of 0 or 1)
    weekError,      \* value getWeeklyTimeData rejected with (sequence of 0 or 1)
    weeklyTarget,   \* config.weeklyTarget of the DailyTargetsManager (hours, a fraction)
    customTargets,  \* config.customTargets: day name -> hours (a fraction)
    lockedDays,     \* config.lockedDays: day name -> boolean
    mode,           \* config.mode
    lastOp,         \* the allocator operation called last: [name, day, hours]
    edits,          \* number of allocator operations called since construction
    lastModified,   \* config.lastModified: the time, counted in operations called
    pending,        \* the watcher's callback is queued
    stored,         \* the configuration localStorage holds (a sequence of 0 or 1)
    lastSave,       \* how the last saveToStorage ended: "none", "ok" or "failed"
    currentWeek,    \* App.vue: currentWeek, as the number of weeks before this one
    timeData,       \* App.vue: timeData (a sequence of 0 or 1 summary; empty: undefined)
    loading,        \* App.vue: loading
    appError,       \* App.vue: error
    connectionStatus, \* App.vue: connectionStatus
    loads,          \* the loadTimeData calls made: [isAutoRefresh, pc, week]
    batchFailed     \* a call has failed since the last time none was in flight

dayVars == <<dpc, date, dayBuckets, afkBucket, afkEvents, activePeriods, mergedPeriods,
             dayResult, dayError>>
weekVars == <<wpc, weekBuckets, start, end, i, currentDate, totalHours, dailyBreakdown,
              weekResult, weekError>>
apiVars == <<dayVars, weekVars, bucketRequests, eventRequests, dayFailures>>
allocVars ==
    <<weeklyTarget, customTargets, lockedDays, mode, lastOp, edits,
      lastModified, pending, stored, lastSave>>
appVars == <<currentWeek, timeData, loading, appError, connectionStatus, loads, batchFailed>>
vars == <<apiVars, allocVars, appVars>>

-----------------------------------------------------------------------------
(* Program constants *)

\* setHours(23, 59, 59, 999): the last millisecond of a day, relative to its midnight
DayEndMs == 86399999

\* fusion threshold of the merge loop, in milliseconds
FusionMs == 1000

\* event.duration * 1000
MsPerSecond == 1000

\* totalActiveSeconds / 3600
SecondsPerHour == 3600

\* for (let i = 0; i < 7; i++)
DaysPerWeek == 7

(* Bounds of the model *)

\* longest event list one getEvents response carries in a stand-alone day query
MaxEvents == 3

\* number of allocator operations the model follows from construction
MaxEdits == 3
MaxLoads == 4

-----------------------------------------------------------------------------
(* Numbers *)

Abs(x) == IF x < 0 THEN -x ELSE x
Max(a, b) == IF a > b THEN a ELSE b
Min(a, b) == IF a < b THEN a ELSE b

RECURSIVE GCD(_, _)
GCD(a, b) == IF b = 0 THEN a ELSE GCD(b, a % b)

(* Hours of the DailyTargetsManager are JavaScript numbers; the model keeps *)
(* them as whole numbers of 1/UnitsPerHour hour.  The five-minute step     *)
(* (1/12 hour), the default day target (34.17 / 5 = 3417/500 hour) and the *)
(* hours of the presets (5.17, 6.17) are whole numbers of units.  A        *)
(* division the code makes is followed where its quotient is a whole       *)
(* number of units again.                                                  *)
UnitsPerHour == 72 * 500

\* n / d hours, in units
Hours(n, d) == (n * UnitsPerHour) \div d

\* n / d is a whole number
Exact(n, d) == d # 0 /\ n % d = 0

\* t * (hours / total), reduced before multiplying
Scaled(t, hours, total) ==
    LET g == GCD(Abs(hours), Abs(total))
    IN  (t \div (total \div g)) * (hours \div g)

RECURSIVE MulDiv(_, _, _)
\* <<quotient, remainder>> of t * a divided by b, for t >= 0, a >= 0, b > 0,
\* computed six bits of a at a time so that no product leaves TLC's integers
MulDiv(t, a, b) ==
    IF a = 0 THEN <<0, 0>>
    ELSE LET high == MulDiv(t, a \div 64, b)
             rest == 64 * high[2] + (a % 64) * t
         IN  <<64 * high[1] + rest \div b, rest % b>>

\* t * (hours / total) is a whole number
ScalesExactly(t, hours, total) ==
    total # 0 /\ Exact(t, total \div GCD(Abs(hours), Abs(total)))

-----------------------------------------------------------------------------
(* Dates *)

DayMs == DayEndMs + 1

\* days from 1970-01-01 to the civil date y-m-d (d may exceed the month's length:
\* the overflow runs into the following month, as Date.prototype.setDate does)
DaysFromCivil(y, m, d) ==
    LET yy == IF m <= 2 THEN y - 1 ELSE y
        era == yy \div 400
        yoe == yy - era * 400
        mp == IF m > 2 THEN m - 3 ELSE m + 9
        doy == (153 * mp + 2) \div 5 + d - 1
        doe == yoe * 365 + yoe \div 4 - yoe \div 100 + doy
    IN  era * 146097 + doe - 719468

\* civil date <<year, month, day>> of the day z days after 1970-01-01
CivilFromDays(z) ==
    LET zz == z + 719468
        era == zz \div 146097
        doe == zz - era * 146097
        yoe == (doe - doe \div 1460 + doe \div 36524 - doe \div 146096) \div 365
        doy == doe - (365 * yoe + yoe \div 4 - yoe \div 100)
        mp == (5 * doy + 2) \div 153
        d == doy - (153 * mp + 2) \div 5 + 1
        m == IF mp < 10 THEN mp + 3 ELSE mp - 9
        y == yoe + era * 400 + (IF m <= 2 THEN 1 ELSE 0)
    IN  <<y, m, d>>

\* the model's time origin: local midnight of 2024-02-20
EpochDays == DaysFromCivil(2024, 2, 20)

\* local calendar day (days after 1970-01-01) and time of day of a Date
DayOf(t) == EpochDays + t \div DayMs
TimeOfDay(t) == t % DayMs

getFullYear(t) == CivilFromDays(DayOf(t))[1]
getMonth(t) == CivilFromDays(DayOf(t))[2] - 1
getDate(t) == CivilFromDays(DayOf(t))[3]

\* mutant: the day of the month is left as it is
setDateIgnored(t, n) == t

\* date.setDate(n): same year, month and time of day, day of month n
setDate(t, n) ==
    (DaysFromCivil(getFullYear(t), getMonth(t) + 1, n) - EpochDays) * DayMs + TimeOfDay(t)

\* date.setHours(0, 0, 0, 0) and date.setHours(23, 59, 59, 999)
StartOfDay(t) == t - TimeOfDay(t)
EndOfDay(t) == StartOfDay(t) + DayEndMs

(* Strings are sequences of one-character strings. *)
Digits == <<"0", "1", "2", "3", "4", "5", "6", "7", "8", "9">>
Digit(n) == Digits[n + 1]

RECURSIVE NumberToString(_)
\* String(n) for n >= 0
NumberToString(n) == IF n < 10 THEN <<Digit(n)>> ELSE NumberToString(n \div 10) \o <<Digit(n % 10)>>

RECURSIVE padStart(_, _, _)
\* s.padStart(len, c)
padStart(s, len, c) == IF Len(s) >= len THEN s ELSE padStart(<<c>> \o s, len, c)

\* the local date string of awServerApi.ts:233-235
localDateString(t) ==
    NumberToString(getFullYear(t)) \o <<"-">> \o
    padStart(NumberToString(getMonth(t) + 1), 2, "0") \o <<"-">> \o
    padStart(NumberToString(getDate(t)), 2, "0")

-----------------------------------------------------------------------------
(* request(): errors and the catch blocks *)

\* thrown values: [name, message]; ApiError extends Error
Error(msg) == [name |-> "Error", message |-> msg]
ApiError(msg) == [name |-> "ApiError", message |-> msg]

\* the catch block of request() for a failed fetch (awServerApi.ts:23-33)
RequestFailure == ApiError("Failed to fetch")

\* mutant: the caught error is thrown on as it is
RethrowAsIs(error) == error

\* the catch blocks of getDayTimelineData and getWeeklyTimeData:
\* every Error (ApiError included) is rethrown as an ApiError with its message
Rethrow(error) == ApiError(error.message)

\* buckets.find(bucket => bucket.type === type): the first match, or nothing
RECURSIVE find(_, _)
find(buckets, type) ==
    IF buckets = <<>> THEN <<>>
    ELSE IF Head(buckets).type = type THEN <<Head(buckets)>>
    ELSE find(Tail(buckets), type)

-----------------------------------------------------------------------------
(* The synchronous part of getDayTimelineData *)

\* afkEvents.filter(event => event.data.status === 'not-afk')
RECURSIVE filterActive(_)
filterActive(events) ==
    IF events = <<>> THEN <<>>
    ELSE (IF Head(events).status = "not-afk" THEN <<Head(events)>> ELSE <<>>)
         \o filterActive(Tail(events))

\* mutant: the period is not clipped to the end of the day
clipEventUnclipped(event, dayStart, dayEnd) ==
    LET eventStart == event.timestamp
        eventEnd == eventStart + event.duration
        overlapStart == IF eventStart > dayStart THEN eventStart ELSE dayStart
    IN  IF event.duration <= 0 THEN <<>>
        ELSE IF overlapStart < eventEnd
             THEN <<[start |-> overlapStart, end |-> eventEnd,
                     duration |-> eventEnd - overlapStart]>>
             ELSE <<>>

\* mutant: an empty overlap is kept (<= for <)
clipEventZeroLength(event, dayStart, dayEnd) ==
    LET eventStart == event.timestamp
        eventEnd == eventStart + event.duration
        overlapStart == IF eventStart > dayStart THEN eventStart ELSE dayStart
        overlapEnd == IF eventEnd < dayEnd THEN eventEnd ELSE dayEnd
    IN  IF event.duration <= 0 THEN <<>>
        ELSE IF overlapStart <= overlapEnd
             THEN <<[start |-> overlapStart, end |-> overlapEnd,
                     duration |-> overlapEnd - overlapStart]>>
             ELSE <<>>

\* body of activeEvents.forEach: the period one event contributes (0 or 1)
clipEvent(event, dayStart, dayEnd) ==
    LET eventStart == event.timestamp
        eventEnd == eventStart + event.duration
        overlapStart == IF eventStart > dayStart THEN eventStart ELSE dayStart
        overlapEnd == IF eventEnd < dayEnd THEN eventEnd ELSE dayEnd
    IN  IF event.duration <= 0 THEN <<>>
        ELSE IF overlapStart < overlapEnd
             THEN <<[start |-> overlapStart, end |-> overlapEnd,
                     duration |-> overlapEnd - overlapStart]>>
             ELSE <<>>

RECURSIVE collectPeriods(_, _, _)
collectPeriods(events, dayStart, dayEnd) ==
    IF events = <<>> THEN <<>>
    ELSE clipEvent(Head(events), dayStart, dayEnd)
         \o collectPeriods(Tail(events), dayStart, dayEnd)

\* comparator of the sort: a.start.getTime() - b.start.getTime()
compareStart(a, b) == a.start - b.start

\* Array.prototype.sort is stable: an element goes after every element that
\* does not compare greater than it
RECURSIVE insertSorted(_, _)
insertSorted(sorted, p) ==
    IF sorted = <<>> THEN <<p>>
    ELSE IF compareStart(Head(sorted), p) > 0 THEN <<p>> \o sorted
    ELSE <<Head(sorted)>> \o insertSorted(Tail(sorted), p)

RECURSIVE sortPeriods(_)
sortPeriods(periods) ==
    IF periods = <<>> THEN <<>>
    ELSE insertSorted(sortPeriods(SubSeq(periods, 1, Len(periods) - 1)),
                      periods[Len(periods)])

\* mutant: only overlapping or touching periods fuse (no 1 second allowance)
fusesWithoutThreshold(period, lastPeriod) == period.start <= lastPeriod.end

\* the test of awServerApi.ts:137
fuses(period, lastPeriod) == period.start <= lastPeriod.end + FusionMs

\* mutant: the loop never fuses, every period is appended
mergeStepNoFusion(merged, period) == Append(merged, period)

\* mutant: fusing extends the end and leaves the duration as it was
mergeStepStaleDuration(merged, period) ==
    IF merged = <<>> THEN <<period>>
    ELSE LET lastPeriod == merged[Len(merged)]
         IN  IF fuses(period, lastPeriod)
             THEN LET mergedEnd == IF period.end > lastPeriod.end
                                   THEN period.end ELSE lastPeriod.end
                  IN  [merged EXCEPT ![Len(merged)] =
                          [start |-> lastPeriod.start, end |-> mergedEnd,
                           duration |-> lastPeriod.duration]]
             ELSE Append(merged, period)

\* mutant: fusing takes the end of the period fused in, also when it is the
\* earlier of the two ends
mergeStepLastEnd(merged, period) ==
    IF merged = <<>> THEN <<period>>
    ELSE LET lastPeriod == merged[Len(merged)]
         IN  IF fuses(period, lastPeriod)
             THEN [merged EXCEPT ![Len(merged)] =
                      [start |-> lastPeriod.start, end |-> period.end,
                       duration |-> period.end - lastPeriod.start]]
             ELSE Append(merged, period)

\* body of the merge loop (awServerApi.ts:131-145)
mergeStep(merged, period) ==
    IF merged = <<>> THEN <<period>>
    ELSE LET lastPeriod == merged[Len(merged)]
         IN  IF fuses(period, lastPeriod)
             THEN LET mergedEnd == IF period.end > lastPeriod.end
                                   THEN period.end ELSE lastPeriod.end
                  IN  [merged EXCEPT ![Len(merged)] =
                          [start |-> lastPeriod.start, end |-> mergedEnd,
                           duration |-> mergedEnd - lastPeriod.start]]
             ELSE Append(merged, period)

\* the merge loop over the first n sorted periods
RECURSIVE mergePrefix(_, _)
mergePrefix(periods, n) ==
    IF n = 0 THEN <<>> ELSE mergeStep(mergePrefix(periods, n - 1), periods[n])

mergeAll(periods) == mergePrefix(periods, Len(periods))

\* mergedPeriods.reduce((sum, period) => sum + period.duration, 0)
RECURSIVE sumDurations(_)
sumDurations(periods) ==
    IF periods = <<>> THEN 0
    ELSE sumDurations(SubSeq(periods, 1, Len(periods) - 1)) + periods[Len(periods)].duration

\* the timeline loop (awServerApi.ts:173-196) over the first n merged periods:
\* [events, totalInactiveSeconds, currentTime]
RECURSIVE timelineLoop(_, _)
timelineLoop(merged, n) ==
    IF n = 0
    THEN [events |-> <<>>, totalInactiveSeconds |-> 0, currentTime |-> merged[1].start]
    ELSE LET prev == timelineLoop(merged, n - 1)
             activePeriod == merged[n]
             gap == prev.currentTime < activePeriod.start
             inactiveDuration == activePeriod.start - prev.currentTime
         IN  [events |->
                 prev.events
                 \o (IF gap THEN <<[start |-> prev.currentTime, end |-> activePeriod.start,
                                    duration |-> inactiveDuration, type |-> "inactive"]>>
                     ELSE <<>>)
                 \o <<[start |-> activePeriod.start, end |-> activePeriod.end,
                       duration |-> activePeriod.duration, type |-> "active"]>>,
              totalInactiveSeconds |->
                 prev.totalInactiveSeconds + (IF gap THEN inactiveDuration ELSE 0),
              currentTime |-> activePeriod.end]

EmptyTimeline == [totalActiveSeconds |-> 0, totalInactiveSeconds |-> 0, events |-> <<>>]

\* what getDayTimelineData returns for the fetched events (awServerApi.ts:85-202)
buildTimeline(activeEvents, merged) ==
    IF Len(activeEvents) = 0 THEN EmptyTimeline
    ELSE IF Len(merged) = 0 THEN EmptyTimeline
    ELSE LET loop == timelineLoop(merged, Len(merged))
         IN  [totalActiveSeconds |-> sumDurations(merged),
              totalInactiveSeconds |-> loop.totalInactiveSeconds,
              events |-> loop.events]

-----------------------------------------------------------------------------
(* Responses of the ActivityWatch server *)

AfkA == [id |-> "aw-watcher-afk_a", type |-> "afkstatus"]
AfkB == [id |-> "aw-watcher-afk_b", type |-> "afkstatus"]
Window == [id |-> "aw-watcher-window_a", type |-> "currentwindow"]

\* bucket lists a GET /api/0/buckets/ may answer with; inside a weekly query the
\* lists name one afk bucket only
BucketLists ==
    IF wpc = "idle"
    THEN {<<>>, <<Window>>, <<AfkA>>, <<AfkB, Window, AfkA>>}
    ELSE {<<>>, <<Window>>, <<AfkA>>, <<Window, AfkA>>}

\* an event of the afk bucket, timestamp relative to the queried day's midnight
Event(t, d, s) == [timestamp |-> t, duration |-> d, status |-> s]

Timestamps == {-1000, 0, 1000, 2500, DayEndMs - 999}
Durations == {500, 1000, 2000}

DayEvents ==
    {Event(t, d, "not-afk") : t \in Timestamps, d \in Durations}
    \cup {Event(0, 1000, "afk"), Event(0, 0, "not-afk"), Event(1000, -500, "not-afk"),
          Event(-1000, DayMs + 2000, "not-afk")}

DayEventLists == UNION {[1..n -> DayEvents] : n \in 0..MaxEvents}

NineOClock == 9 * SecondsPerHour * MsPerSecond

\* event lists answered inside a weekly query: active totals of 0 s, 17 s and 35 s
WeekEventLists ==
    {<<Event(NineOClock, 60000, "afk")>>,
     <<Event(NineOClock, 17000, "not-afk")>>,
     <<Event(NineOClock + 15000, 20000, "not-afk"), Event(NineOClock, 20000, "not-afk")>>}

EventLists == IF wpc = "idle" THEN DayEventLists ELSE WeekEventLists

\* the events as the server sends them for the day beginning at dayStart
atDay(events, dayStart) ==
    [k \in 1..Len(events) |-> [events[k] EXCEPT !.timestamp = @ + dayStart]]

\* dates a stand-alone day query is made for
DayDates == {DayMs + 10 * SecondsPerHour * MsPerSecond}

\* start dates of a weekly query: Wed 21, Sat 24 (noon) and Wed 28 February 2024
WeekStarts == {DayMs, 4 * DayMs + 12 * SecondsPerHour * MsPerSecond, 8 * DayMs}

\* end dates passed with start date s
WeekEnds(s) == {EndOfDay(StartOfDay(s) + 6 * DayMs), s}

-----------------------------------------------------------------------------
(* getDayTimelineData *)

NoDay ==
    /\ date = 0 /\ dayBuckets = <<>> /\ afkBucket = <<>> /\ afkEvents = <<>> /\ activePeriods = <<>>
    /\ mergedPeriods = <<>> /\ dayResult = <<>> /\ dayError = <<>>

\* the call, up to the first await: getBuckets() issues its request
enterDay(d) ==
    /\ dpc' = "getBuckets"
    /\ date' = d
    /\ dayBuckets' = <<>> /\ afkBucket' = <<>> /\ afkEvents' = <<>> /\ activePeriods' = <<>>
    /\ mergedPeriods' = <<>> /\ dayResult' = <<>> /\ dayError' = <<>>

\* a stand-alone call (TimelineModal.vue:208)
DayCall ==
    /\ wpc = "idle" /\ dpc = "idle"
    /\ \E d \in DayDates : enterDay(d)
    /\ bucketRequests' = bucketRequests + 1
    /\ UNCHANGED <<weekVars, eventRequests, dayFailures>>
    /\ UNCHANGED <<allocVars, appVars>>

dayThrows(error) ==
    /\ dpc' = "thrown"
    /\ dayError' = <<Rethrow(error)>>
    /\ dayFailures' = dayFailures + 1
    /\ UNCHANGED <<date, afkEvents, activePeriods, mergedPeriods, dayResult>>

\* getBuckets() settles (awServerApi.ts:69-83)
DayBucketsResponse ==
    /\ dpc = "getBuckets"
    /\ \/ /\ dayThrows(RequestFailure)
          /\ UNCHANGED <<dayBuckets, afkBucket, eventRequests>>
       \/ \E buckets \in BucketLists :
            LET found == find(buckets, "afkstatus")
                dayStart == StartOfDay(date)
                dayEnd == EndOfDay(date)
            IN  /\ dayBuckets' = <<buckets>>
                /\ IF found = <<>>
                   THEN /\ dayThrows(Error("Required AFK bucket not found"))
                        /\ UNCHANGED <<afkBucket, eventRequests>>
                   ELSE /\ dpc' = "getEvents"
                        /\ afkBucket' = found
                        /\ eventRequests' = Append(eventRequests,
                               [bucket |-> found[1].id, start |-> dayStart, end |-> dayEnd])
                        /\ UNCHANGED <<date, afkEvents, activePeriods, mergedPeriods,
                                       dayResult, dayError, dayFailures>>
    /\ UNCHANGED <<weekVars, bucketRequests>>
    /\ UNCHANGED <<allocVars, appVars>>

\* getEvents() settles and the timeline is built (awServerApi.ts:83-202)
DayEventsResponse ==
    /\ dpc = "getEvents"
    /\ \/ /\ dayThrows(RequestFailure)
          /\ UNCHANGED <<dayBuckets, afkBucket>>
       \/ \E events \in EventLists :
            LET dayStart == StartOfDay(date)
                dayEnd == EndOfDay(date)
                fetched == atDay(events, dayStart)
                activeEvents == filterActive(fetched)
                sorted == sortPeriods(collectPeriods(activeEvents, dayStart, dayEnd))
                merged == mergeAll(sorted)
            IN  /\ afkEvents' = fetched
                /\ activePeriods' = sorted
                /\ mergedPeriods' = merged
                /\ dayResult' = <<buildTimeline(activeEvents, merged)>>
                /\ dpc' = "returned"
                /\ UNCHANGED <<date, dayBuckets, afkBucket, dayError, dayFailures>>
    /\ UNCHANGED <<weekVars, bucketRequests, eventRequests>>
    /\ UNCHANGED <<allocVars, appVars>>

-----------------------------------------------------------------------------
(* getWeeklyTimeData *)

\* mutant: Math.floor for Math.round
roundHoursDown(ms) ==
    LET unit == (SecondsPerHour * MsPerSecond) \div 100
    IN  ms \div unit

\* Math.round(hours * 100) / 100 of a duration in milliseconds, in hundredths of an hour
roundHours(ms) ==
    LET unit == (SecondsPerHour * MsPerSecond) \div 100
    IN  (2 * ms + unit) \div (2 * unit)

\* a call (App.vue:342)
WeekCall ==
    /\ wpc = "idle" /\ dpc = "idle"
    /\ \E s \in WeekStarts : \E e \in WeekEnds(s) :
         /\ start' = s
         /\ end' = e
    /\ wpc' = "getBuckets"
    /\ bucketRequests' = bucketRequests + 1
    /\ UNCHANGED <<dayVars, weekBuckets, i, currentDate, totalHours, dailyBreakdown,
                   weekResult, weekError, eventRequests, dayFailures>>
    /\ UNCHANGED <<allocVars, appVars>>

weekThrows(error) ==
    /\ wpc' = "thrown"
    /\ weekError' = <<Rethrow(error)>>
    /\ UNCHANGED <<start, end, i, currentDate, totalHours, dailyBreakdown, weekResult>>

\* getBuckets() settles; the loop is entered and the first day queried
\* (awServerApi.ts:213-229)
WeekBucketsResponse ==
    /\ wpc = "getBuckets"
    /\ \/ /\ weekThrows(RequestFailure)
          /\ UNCHANGED <<dayVars, weekBuckets, bucketRequests>>
       \/ \E buckets \in BucketLists :
            /\ weekBuckets' = <<buckets>>
            /\ IF find(buckets, "afkstatus") = <<>> \/ find(buckets, "currentwindow") = <<>>
               THEN /\ weekThrows(Error("Required buckets not found"))
                    /\ UNCHANGED <<dayVars, bucketRequests>>
               ELSE /\ wpc' = "loop"
                    /\ currentDate' = start
                    /\ totalHours' = 0
                    /\ dailyBreakdown' = <<>>
                    /\ i' = 0
                    /\ enterDay(start)
                    /\ bucketRequests' = bucketRequests + 1
                    /\ UNCHANGED <<start, end, weekResult, weekError>>
    /\ UNCHANGED <<eventRequests, dayFailures>>
    /\ UNCHANGED <<allocVars, appVars>>

\* getDayTimelineData(currentDate) resolved: the rest of the loop body, then the
\* next day's query or the result (awServerApi.ts:229-251)
WeekDayReturned ==
    /\ wpc = "loop" /\ dpc = "returned"
    /\ LET dayData == dayResult[1]
           dayHours == dayData.totalActiveSeconds
           entry == [date |-> localDateString(currentDate), hours |-> roundHours(dayHours)]
           nextDate == setDate(currentDate, getDate(currentDate) + 1)
       IN  /\ dailyBreakdown' = Append(dailyBreakdown, entry)
           /\ totalHours' = totalHours + dayHours
           /\ currentDate' = nextDate
           /\ i' = i + 1
           /\ IF i + 1 < DaysPerWeek
              THEN /\ enterDay(nextDate)
                   /\ bucketRequests' = bucketRequests + 1
                   /\ UNCHANGED <<wpc, weekResult>>
              ELSE /\ wpc' = "returned"
                   /\ weekResult' = <<[startDate |-> start, endDate |-> end,
                                       totalHours |-> roundHours(totalHours + dayHours),
                                       dailyBreakdown |-> Append(dailyBreakdown, entry)]>>
                   /\ dpc' = "idle"
                   /\ UNCHANGED <<date, dayBuckets, afkBucket, afkEvents, activePeriods,
                                  mergedPeriods, dayResult, dayError, bucketRequests>>
    /\ UNCHANGED <<weekBuckets, start, end, weekError, eventRequests, dayFailures>>
    /\ UNCHANGED <<allocVars, appVars>>

\* mutant: a failed day is recorded with 0 hours and the loop goes on
WeekDayThrownSkipped ==
    /\ wpc = "loop" /\ dpc = "thrown"
    /\ LET entry == [date |-> localDateString(currentDate), hours |-> 0]
           nextDate == setDate(currentDate, getDate(currentDate) + 1)
       IN  /\ dailyBreakdown' = Append(dailyBreakdown, entry)
           /\ currentDate' = nextDate
           /\ i' = i + 1
           /\ IF i + 1 < DaysPerWeek
              THEN /\ enterDay(nextDate)
                   /\ bucketRequests' = bucketRequests + 1
                   /\ UNCHANGED <<wpc, weekResult>>
              ELSE /\ wpc' = "returned"
                   /\ weekResult' = <<[startDate |-> start, endDate |-> end,
                                       totalHours |-> roundHours(totalHours),
                                       dailyBreakdown |-> Append(dailyBreakdown, entry)]>>
                   /\ dpc' = "idle"
                   /\ UNCHANGED <<date, dayBuckets, afkBucket, afkEvents, activePeriods,
                                  mergedPeriods, dayResult, dayError, bucketRequests>>
    /\ UNCHANGED <<weekBuckets, start, end, totalHours, weekError, eventRequests,
                   dayFailures>>
    /\ UNCHANGED <<allocVars, appVars>>

\* getDayTimelineData(currentDate) rejected: the catch block (awServerApi.ts:252-257)
WeekDayThrown ==
    /\ wpc = "loop" /\ dpc = "thrown"
    /\ weekThrows(dayError[1])
    /\ dpc' = "idle"
    /\ UNCHANGED <<date, dayBuckets, afkBucket, afkEvents, activePeriods, mergedPeriods,
                   dayResult, dayError, weekBuckets, bucketRequests, eventRequests,
                   dayFailures>>
    /\ UNCHANGED <<allocVars, appVars>>


-----------------------------------------------------------------------------
(* DailyTargetsManager (useDailyTargets composable) *)

WORKDAYS == <<"monday", "tuesday", "wednesday", "thursday", "friday">>
Workdays == {WORKDAYS[k] : k \in 1..Len(WORKDAYS)}

\* weeklyTarget: 34.17 of the initial config
DefaultWeeklyTarget == Hours(3417, 100)

\* the 5 minute floor, 5/60
MinimumHours == Hours(5, 60)

\* the equal distribution built where customTargets is empty
equalTargets(weekly) == [day \in Workdays |-> weekly \div Len(WORKDAYS)]

\* targets[day] || 0
hoursOf(targets, day) == IF day \in DOMAIN targets THEN targets[day] ELSE 0

RECURSIVE sumOver(_, _, _)
\* the sum of targets[day] || 0 over the first n of a sequence of days
sumOver(targets, days, n) ==
    IF n = 0 THEN 0
    ELSE sumOver(targets, days, n - 1) + hoursOf(targets, days[n])

\* Object.values(targets).reduce((sum, h) => sum + h, 0)
sumValues(targets) == sumOver(targets, WORKDAYS, Len(WORKDAYS))

\* getCustomDistribution(): what dailyTargets reads
getCustomDistribution(targets, weekly) ==
    IF DOMAIN targets = {} THEN equalTargets(weekly) ELSE targets

\* isLocked(day)
isLocked(day) == day \in DOMAIN lockedDays /\ lockedDays[day]

\* WORKDAYS.filter(d => d !== day) with the locks left out
otherDaysIgnoringLocks(day) == Workdays \ {day}

\* WORKDAYS.filter(d => d !== day && !lockedDays[d])
otherDays(day) == {d \in Workdays : d # day /\ ~isLocked(d)}

\* the early returns of updateDayTarget, with the second one left out
returnsEarlyIgnoringLock(day) == day \notin Workdays

\* the early returns of updateDayTarget: not a workday, or locked
returnsEarly(day) == day \notin Workdays \/ isLocked(day)

\* an adjustment that compensates nothing
adjustmentNone(difference, n) == 0

\* -difference / otherDays.length
adjustmentPerDay(difference, n) == (-difference) \div n

\* the targets updateDayTarget(day, newHours) stores
redistribute(targets, day, newHours) ==
    LET difference == newHours - hoursOf(targets, day)
        others == otherDays(day)
    IN  [d \in DOMAIN targets \cup {day} \cup others |->
            IF d = day THEN newHours
            ELSE IF d \in others
                 THEN Max(MinimumHours,
                          hoursOf(targets, d)
                              + adjustmentPerDay(difference, Cardinality(others)))
                 ELSE targets[d]]

\* a rescale that leaves the locked days as they are
rescaleUnlockedOnly(targets, hours) ==
    LET currentTotal == sumValues(targets)
    IN  IF currentTotal > 0
        THEN [d \in DOMAIN targets |->
                 IF d \in Workdays /\ targets[d] # 0 /\ ~isLocked(d)
                 THEN Scaled(targets[d], hours, currentTotal) ELSE targets[d]]
        ELSE targets

\* the targets setWeeklyTarget(hours) leaves
rescale(targets, hours) ==
    LET currentTotal == sumValues(targets)
    IN  IF currentTotal > 0
        THEN [d \in DOMAIN targets |->
                 IF d \in Workdays /\ targets[d] # 0
                 THEN Scaled(targets[d], hours, currentTotal) ELSE targets[d]]
        ELSE targets

\* arguments the callers pass: setWeeklyTarget and updateDayTarget take any
\* number and any string (the settings surface passes only weekdays, a weekly
\* target of 5/60 or more and a day target of 0 or more).  1139/2400 hour
\* (28 min 28.5 s) is a weekly target just above five times the 5 minute floor.
WeeklyInputs == {0, Hours(40, 1), Hours(1139, 2400)}
DayInputs == {0, Hours(40, 1)}
DayArgs == Workdays \cup {"saturday"}

\* an operation is called: by a handler of the settings surface, one
\* operation per event, once the callback queued by the event before has run
called == ~pending /\ edits < MaxEdits /\ edits' = edits + 1

\* the watcher of watchForChanges: an assignment to config.mode,
\* config.weeklyTarget, config.customTargets or config.lockedDays that changes
\* the value (a new object is a changed value) queues the callback once
watched(assigned) ==
    /\ pending' = (pending \/ assigned)
    /\ UNCHANGED <<lastModified, stored, lastSave>>

UpdateDayTarget ==
    /\ called
    /\ \E day \in DayArgs : \E newHours \in DayInputs :
         /\ lastOp' = [name |-> "updateDayTarget", day |-> day, hours |-> newHours]
         /\ watched(~returnsEarly(day))
         /\ IF returnsEarly(day)
            THEN UNCHANGED <<customTargets, mode>>
            ELSE LET currentTargets == getCustomDistribution(customTargets, weeklyTarget)
                 IN  /\ \/ otherDays(day) = {}
                        \/ Exact(newHours - hoursOf(currentTargets, day),
                                 Cardinality(otherDays(day)))
                     /\ mode' = "custom"
                     /\ customTargets' = redistribute(currentTargets, day, newHours)
    /\ UNCHANGED <<weeklyTarget, lockedDays, apiVars, appVars>>

SetWeeklyTarget ==
    /\ called
    /\ \E hours \in WeeklyInputs :
         /\ lastOp' = [name |-> "setWeeklyTarget", day |-> "", hours |-> hours]
         /\ \A d \in DOMAIN customTargets :
                sumValues(customTargets) > 0
                    => ScalesExactly(customTargets[d], hours, sumValues(customTargets))
         /\ weeklyTarget' = hours
         /\ customTargets' = rescale(customTargets, hours)
         /\ watched(hours # weeklyTarget \/ sumValues(customTargets) > 0)
    /\ UNCHANGED <<lockedDays, mode, apiVars, appVars>>

ToggleLock ==
    /\ called
    /\ \E day \in Workdays :
         /\ lastOp' = [name |-> "toggleLock", day |-> day, hours |-> 0]
         /\ lockedDays' = [d \in DOMAIN lockedDays \cup {day} |->
                              IF d = day THEN ~isLocked(day) ELSE lockedDays[d]]
         /\ watched(TRUE)
    /\ UNCHANGED <<weeklyTarget, customTargets, mode, apiVars, appVars>>

\* unlockedDays of autoBalance and applyPreset, in the order of WORKDAYS
unlockedDays == SelectSeq(WORKDAYS, LAMBDA d : ~isLocked(d))

\* lockedTotal with every day counted, locked or not
lockedTotalOfAll(targets) == sumValues(targets)

\* lockedTotal: the sum of the locked days' targets
lockedTotal(targets) ==
    LET locked == SelectSeq(WORKDAYS, LAMBDA d : isLocked(d))
    IN  sumOver(targets, locked, Len(locked))

\* the test of tooSmall with its second comparison turned round
tooSmallComparisonTurned(remainingTarget) ==
    remainingTarget <= 0 \/ remainingTarget > Len(unlockedDays) * MinimumHours

\* remainingTarget < unlockedDays.length * (5/60), or <= 0
tooSmall(remainingTarget) ==
    remainingTarget <= 0 \/ remainingTarget < Len(unlockedDays) * MinimumHours

\* Math.max(5/60, value) without the floor
atLeastMinimumUnfloored(value) == value[1]

\* Math.max(5/60, value) for a value <<quotient, remainder>>: the value is
\* below 5/60 exactly where its quotient is
atLeastMinimum(value) == IF value[1] < MinimumHours THEN MinimumHours ELSE value[1]

\* the value is a whole number of units, or the floor replaces it
wholeOrFloored(value) == value[1] < MinimumHours \/ value[2] = 0

\* what autoBalance and applyPreset compute for an unlocked day from a
\* pattern: pattern[day] * (remainingTarget / total of the pattern's unlocked
\* days), or an equal share where that total is not > 0
share(pattern, day, remainingTarget) ==
    LET total == sumOver(pattern, unlockedDays, Len(unlockedDays))
    IN  IF total > 0
        THEN MulDiv(hoursOf(pattern, day), remainingTarget, total)
        ELSE <<remainingTarget \div Len(unlockedDays), remainingTarget % Len(unlockedDays)>>

\* the targets applyPreset() stores for the pattern it scales; autoBalance()
\* makes the same statements with the current targets as the pattern
balanced(targets, pattern, weekly) ==
    LET remainingTarget == weekly - lockedTotal(targets)
    IN  [d \in DOMAIN targets \cup (Workdays \ {l \in Workdays : isLocked(l)}) |->
            IF d \in Workdays /\ ~isLocked(d)
            THEN IF tooSmall(remainingTarget) THEN MinimumHours
                 ELSE atLeastMinimum(share(pattern, d, remainingTarget))
            ELSE targets[d]]

\* every division of balanced(...) is followed by the model
balancedExactly(targets, pattern, weekly) ==
    LET remainingTarget == weekly - lockedTotal(targets)
    IN  IF tooSmall(remainingTarget) THEN TRUE
        ELSE \A k \in 1..Len(unlockedDays) :
                 wholeOrFloored(share(pattern, unlockedDays[k], remainingTarget))

\* the targets autoBalance() stores: the current targets are the pattern
autoBalanced(targets, weekly) == balanced(targets, targets, weekly)

\* autoBalance() (the version of the composable that has it)
AutoBalance ==
    /\ called
    /\ lastOp' = [name |-> "autoBalance", day |-> "", hours |-> 0]
    /\ watched(mode # "custom" \/ Len(unlockedDays) > 0)
    /\ LET currentTargets == IF mode # "custom"
                             THEN getCustomDistribution(customTargets, weeklyTarget)
                             ELSE customTargets
       IN  IF Len(unlockedDays) = 0
           THEN customTargets' = currentTargets
           ELSE /\ balancedExactly(currentTargets, currentTargets, weeklyTarget)
                /\ customTargets' = autoBalanced(currentTargets, weeklyTarget)
    /\ mode' = "custom"
    /\ UNCHANGED <<weeklyTarget, lockedDays, apiVars, appVars>>

Presets == {"equal", "frontLoaded", "backLoaded", "balanced"}

\* presetTargets of applyPreset
presetTargets(preset, weekly) ==
    CASE preset = "frontLoaded" ->
             [monday |-> Hours(8, 1), tuesday |-> Hours(8, 1), wednesday |-> Hours(7, 1),
              thursday |-> Hours(6, 1), friday |-> Hours(517, 100)]
      [] preset = "backLoaded" ->
             [monday |-> Hours(517, 100), tuesday |-> Hours(6, 1), wednesday |-> Hours(7, 1),
              thursday |-> Hours(8, 1), friday |-> Hours(8, 1)]
      [] preset = "balanced" ->
             [monday |-> Hours(7, 1), tuesday |-> Hours(7, 1), wednesday |-> Hours(617, 100),
              thursday |-> Hours(7, 1), friday |-> Hours(7, 1)]
      [] OTHER -> equalTargets(weekly)

\* the targets applyPreset(preset) stores: the preset is the pattern
presetApplied(targets, preset, weekly) ==
    balanced(targets, presetTargets(preset, weekly), weekly)

\* applyPreset(preset)
ApplyPreset ==
    /\ called
    /\ \E preset \in Presets :
         /\ lastOp' = [name |-> "applyPreset", day |-> "", hours |-> 0, preset |-> preset,
                       repeated |-> lastOp.name = "applyPreset" /\ lastOp.preset = preset]
         /\ watched(Len(unlockedDays) > 0)
         /\ IF Len(unlockedDays) = 0
            THEN UNCHANGED <<customTargets, mode>>
            ELSE /\ preset = "equal" => Exact(weeklyTarget, Len(WORKDAYS))
                 /\ balancedExactly(customTargets, presetTargets(preset, weeklyTarget),
                                    weeklyTarget)
                 /\ customTargets' = presetApplied(customTargets, preset, weeklyTarget)
                 /\ mode' = "custom"
    /\ UNCHANGED <<weeklyTarget, lockedDays, apiVars, appVars>>

dayNames ==
    <<"sunday", "monday", "tuesday", "wednesday", "thursday", "friday", "saturday">>

\* date.getDay(): 0 = Sunday; 1970-01-01 was a Thursday
getDay(t) == (DayOf(t) + 4) % 7

\* the digit a character stands for
digitValue(c) == CHOOSE k \in 0..9 : Digit(k) = c

RECURSIVE parseNumber(_)
\* the number a string of digits stands for
parseNumber(str) ==
    IF Len(str) = 0 THEN 0
    ELSE 10 * parseNumber(SubSeq(str, 1, Len(str) - 1)) + digitValue(str[Len(str)])

\* new Date("YYYY-MM-DD"): a date-only string is midnight UTC of that day,
\* which on the local clock of a host offset milliseconds ahead of UTC is
\* that day's local midnight plus offset
dateFromString(str, offset) ==
    (DaysFromCivil(parseNumber(SubSeq(str, 1, 4)), parseNumber(SubSeq(str, 6, 7)),
                   parseNumber(SubSeq(str, 9, 10))) - EpochDays) * DayMs + offset

\* Math.max(5/60, Math.round(hours * 12) / 12), for hours in hundredths
roundedHours(hours) ==
    Max(MinimumHours, ((12 * hours + 50) \div 100) * (UnitsPerHour \div 12))

RECURSIVE loggedTargets(_, _, _, _)
\* currentTargets of setFromLoggedData after the first n entries of the breakdown
loggedTargets(targets, breakdown, n, offset) ==
    IF n = 0 THEN targets
    ELSE LET currentTargets == loggedTargets(targets, breakdown, n - 1, offset)
             dayData == breakdown[n]
             dayName == dayNames[getDay(dateFromString(dayData.date, offset)) + 1]
         IN  IF dayData.hours <= 0 THEN currentTargets
             ELSE IF dayName \in Workdays /\ ~isLocked(dayName)
                  THEN [d \in DOMAIN currentTargets \cup {dayName} |->
                           IF d = dayName THEN roundedHours(dayData.hours)
                           ELSE currentTargets[d]]
                  ELSE currentTargets

\* a dailyBreakdown as getWeeklyTimeData builds it for the week of Monday
\* 2024-02-19, with the given hours (in hundredths) for Monday..Sunday
breakdownOf(hours) ==
    [k \in 1..DaysPerWeek |->
        [date |-> localDateString((k - 2) * DayMs), hours |-> hours[k]]]

\* summaries passed to setFromLoggedData: a week with 7.96 h, nothing, 0.03 h,
\* 6.5 h, 8.25 h on the weekdays and 2 h on Saturday, and an empty one
Summaries ==
    {[dailyBreakdown |-> breakdownOf(<<796, 0, 3, 650, 825, 200, 0>>)],
     [dailyBreakdown |-> <<>>]}

\* the host's offset from UTC in milliseconds: UTC-5 and UTC+1
Offsets == {-5 * SecondsPerHour * MsPerSecond, SecondsPerHour * MsPerSecond}

\* setFromLoggedData(weeklyTimeData)
SetFromLoggedData ==
    /\ called
    /\ \E weeklyTimeData \in Summaries : \E offset \in Offsets :
         /\ lastOp' = [name |-> "setFromLoggedData", day |-> "", hours |-> 0,
                       summary |-> weeklyTimeData, offset |-> offset]
         /\ watched(TRUE)
         /\ customTargets' = loggedTargets(customTargets, weeklyTimeData.dailyBreakdown,
                                           Len(weeklyTimeData.dailyBreakdown), offset)
    /\ UNCHANGED <<weeklyTarget, lockedDays, mode, apiVars, appVars>>

\* getDailyTargetForDate(dateStr) on a host offset milliseconds ahead of UTC
getDailyTargetForDate(dateStr, offset) ==
    LET dayName == dayNames[getDay(dateFromString(dateStr, offset)) + 1]
    IN  IF dayName \notin Workdays THEN 0
        ELSE hoursOf(getCustomDistribution(customTargets, weeklyTarget), dayName)

\* the local date strings getWeeklyTimeData writes for the week of Monday
\* 2024-02-19
DateStrings == {localDateString((k - 2) * DayMs) : k \in 1..DaysPerWeek}

\* a caller asks for the target of a date; lastOp keeps the answer
GetDailyTargetForDate ==
    /\ ~pending
    /\ \E dateStr \in DateStrings : \E offset \in Offsets :
         lastOp' = [name |-> "getDailyTargetForDate", day |-> "",
                    hours |-> getDailyTargetForDate(dateStr, offset),
                    date |-> dateStr, offset |-> offset]
    /\ UNCHANGED <<weeklyTarget, customTargets, lockedDays, mode, edits,
                   lastModified, pending, stored, lastSave, apiVars, appVars>>

\* config.value, with lastModified as given
config(modified) ==
    [mode |-> mode, customTargets |-> customTargets, weeklyTarget |-> weeklyTarget,
     lockedDays |-> lockedDays, lastModified |-> modified]

\* a saveToStorage() that writes nothing
saveToStorageDropped(value, ok) == stored

\* saveToStorage(): what localStorage holds after it, for a setItem that
\* succeeds or throws.  JSON.stringify writes the numbers, strings, booleans
\* and the date of the configuration so that JSON.parse and new Date give them
\* back, so the item is modelled by the configuration it encodes.
saveToStorage(value, ok) == IF ok THEN <<value>> ELSE stored

\* the callback is queued again after a save that failed
requeuedAfterFailure(ok) == ~ok

\* the callback is not queued by its own run: lastModified is not watched
\* and saveToStorage catches what setItem throws
requeued(ok) == FALSE

\* the watcher's callback runs: lastModified = new Date(), saveToStorage()
WatcherRuns ==
    /\ pending
    /\ lastModified' = edits
    /\ \E ok \in BOOLEAN :
         /\ stored' = saveToStorage(config(edits), ok)
         /\ lastSave' = IF ok THEN "ok" ELSE "failed"
         /\ pending' = requeued(ok)
    /\ UNCHANGED <<weeklyTarget, customTargets, lockedDays, mode, lastOp, edits, apiVars, appVars>>

\* the manager after construction with nothing in localStorage: the
\* constructor assigns the equal split to customTargets after it has set up
\* the watcher, so the watcher's callback is queued
InitAlloc ==
    /\ weeklyTarget = DefaultWeeklyTarget
    /\ customTargets = equalTargets(DefaultWeeklyTarget)
    /\ lockedDays = [d \in {} |-> FALSE]
    /\ mode = "custom"
    /\ lastOp = [name |-> "constructor", day |-> "", hours |-> 0]
    /\ edits = 0
    /\ lastModified = 0 /\ pending = TRUE /\ stored = <<>> /\ lastSave = "none"

-----------------------------------------------------------------------------
(* DailyTargetsManager: construction from localStorage *)

\* JSON.stringify and JSON.parse of a boolean
booleanToString(b) == IF b THEN <<"t", "r", "u", "e">> ELSE <<"f", "a", "l", "s", "e">>
parseBoolean(str) == str = <<"t", "r", "u", "e">>

\* JSON.stringify(config.value): the text of each field that is there.  The
\* numbers (hours in units, lastModified as the model's clock) are written in
\* digits, the booleans as true and false, the mode as the string it is.
stringify(value) ==
    [f \in DOMAIN value |->
        CASE f = "mode" -> value[f]
          [] f = "customTargets" ->
                 [d \in DOMAIN value[f] |-> NumberToString(value[f][d])]
          [] f = "lockedDays" ->
                 [d \in DOMAIN value[f] |-> booleanToString(value[f][d])]
          [] OTHER -> NumberToString(value[f])]

\* JSON.parse(stored); lastModified comes back as the string it was written as
parse(text) ==
    [f \in DOMAIN text |->
        CASE f = "mode" -> text[f]
          [] f = "customTargets" -> [d \in DOMAIN text[f] |-> parseNumber(text[f][d])]
          [] f = "lockedDays" -> [d \in DOMAIN text[f] |-> parseBoolean(text[f][d])]
          [] f = "lastModified" -> text[f]
          [] OTHER -> parseNumber(text[f])]

\* new Date(undefined): an invalid date
InvalidDate == -1

\* the initial value of config: no day values, 34.17 hours, nothing locked
defaultConfig(now) ==
    [mode |-> "custom", customTargets |-> [d \in {} |-> 0],
     weeklyTarget |-> DefaultWeeklyTarget, lockedDays |-> [d \in {} |-> FALSE],
     lastModified |-> now]

\* has the field and it is not an empty object
hasKeys(object, f) == f \in DOMAIN object /\ DOMAIN object[f] # {}

\* a merge in which the initial values override the stored ones
mergedDefaultsWin(parsedConfig, now) ==
    [f \in DOMAIN defaultConfig(now) \cup DOMAIN parsedConfig |->
        IF f \in DOMAIN defaultConfig(now) THEN defaultConfig(now)[f] ELSE parsedConfig[f]]

\* { ...this.config.value, ...parsedConfig }
merged(parsedConfig, now) ==
    [f \in DOMAIN defaultConfig(now) \cup DOMAIN parsedConfig |->
        IF f \in DOMAIN parsedConfig THEN parsedConfig[f] ELSE defaultConfig(now)[f]]

\* config.value after loadFromStorage() for what localStorage holds: the
\* item is parsed, lastModified made a Date, an item of mode 'equal' turned
\* into mode 'custom' (with the equal split of its weeklyTarget where it has
\* no day values), and the result laid over the initial config
loadFromStorage(item, now) ==
    IF item = <<>> THEN defaultConfig(now)
    ELSE LET json == parse(stringify(item[1]))
             parsedConfig ==
                 [f \in DOMAIN json \cup {"lastModified"} |->
                     IF f # "lastModified" THEN json[f]
                     ELSE IF f \in DOMAIN json THEN parseNumber(json[f]) ELSE InvalidDate]
             converted ==
                 IF "mode" \in DOMAIN parsedConfig /\ parsedConfig.mode = "equal"
                 THEN [f \in DOMAIN parsedConfig \cup {"customTargets"} |->
                          IF f = "mode" THEN "custom"
                          ELSE IF f = "customTargets" /\ ~hasKeys(parsedConfig, f)
                               THEN equalTargets(parsedConfig.weeklyTarget)
                               ELSE parsedConfig[f]]
                 ELSE parsedConfig
         IN  merged(converted, now)

\* an initialisation that always writes the equal split
initialTargetsAlwaysEqual(loaded) == equalTargets(loaded.weeklyTarget)

\* the constructor's initialisation: the equal split where the loaded
\* config has no day values
initialTargets(loaded) ==
    IF DOMAIN loaded.customTargets = {}
    THEN equalTargets(loaded.weeklyTarget)
    ELSE loaded.customTargets

\* what localStorage can hold when the page loads.  Nothing; an item of the
\* older version of the composable, of mode 'equal' without day values; an
\* item that has only a weekly target; and an item this version wrote after
\* applyPreset('frontLoaded') and toggleLock of tuesday, wednesday, thursday
\* and friday.
StoredItems ==
    {<<>>,
     <<[mode |-> "equal", customTargets |-> [d \in {} |-> 0],
        weeklyTarget |-> Hours(40, 1), lockedDays |-> [d \in {} |-> FALSE],
        lastModified |-> 0]>>,
     <<[weeklyTarget |-> Hours(40, 1)]>>,
     <<[mode |-> "custom", customTargets |-> presetTargets("frontLoaded", DefaultWeeklyTarget),
        weeklyTarget |-> DefaultWeeklyTarget,
        lockedDays |-> [d \in Workdays \ {"monday"} |-> TRUE],
        lastModified |-> 0]>>}

\* new DailyTargetsManager() with the item in localStorage (unprimed: the
\* state the page starts in)
InitStored ==
    /\ stored \in StoredItems
    /\ LET loaded == loadFromStorage(stored, 0)
       IN  /\ weeklyTarget = loaded.weeklyTarget
           /\ customTargets = initialTargets(loaded)
           /\ lockedDays = loaded.lockedDays
           /\ mode = loaded.mode
           /\ lastModified = loaded.lastModified
           /\ pending = (DOMAIN loaded.customTargets = {})
    /\ lastOp = [name |-> "constructor", day |-> "", hours |-> 0]
    /\ edits = 0
    /\ lastSave = "none"

\* the page is loaded again: a new DailyTargetsManager is constructed from
\* what localStorage holds
Reload ==
    /\ ~pending
    /\ LET loaded == loadFromStorage(stored, edits)
       IN  /\ weeklyTarget' = loaded.weeklyTarget
           /\ customTargets' = initialTargets(loaded)
           /\ lockedDays' = loaded.lockedDays
           /\ mode' = loaded.mode
           /\ lastModified' = loaded.lastModified
           /\ pending' = (DOMAIN loaded.customTargets = {})
    /\ lastOp' = [name |-> "constructor", day |-> "", hours |-> 0]
    /\ lastSave' = "none"
    /\ UNCHANGED <<edits, stored, apiVars, appVars>>

-----------------------------------------------------------------------------
(* App.vue: loadTimeData, week changes, retries and the auto-refresh *)

\* the weeks the week view can select: this week and the one before
AppWeeks == {0, 1}

\* what getWeeklyTimeData(week.start, week.end) resolves with: the summary
\* of the seven days of that week
summaryOf(week) == [week |-> week]

\* the calls of loadTimeData that have not finished
InFlight == {k \in 1..Len(loads) : loads[k].pc # "done"}

\* loadTimeData(isAutoRefresh) up to its first await: the call of
\* api.checkConnection()
loadTimeData(isAutoRefresh) ==
    /\ Len(loads) < MaxLoads
    /\ loading' = IF isAutoRefresh THEN loading ELSE TRUE
    /\ appError' = ""
    /\ connectionStatus' = "checking"
    /\ loads' = Append(loads, [isAutoRefresh |-> isAutoRefresh,
                                pc |-> "checkConnection", week |-> <<>>])
    /\ batchFailed' = (InFlight # {} /\ batchFailed)
    /\ UNCHANGED timeData

\* the catch and finally blocks of loadTimeData for the call k
loadFails(k) ==
    /\ connectionStatus' = "disconnected"
    /\ appError' = "failed"
    /\ timeData' = <<>>
    /\ loading' = IF loads[k].isAutoRefresh THEN loading ELSE FALSE
    /\ loads' = [loads EXCEPT ![k].pc = "done"]
    /\ batchFailed' = TRUE

\* the week view emits week-changed
OnWeekChanged ==
    /\ \E week \in AppWeeks \ {currentWeek} : currentWeek' = week
    /\ loadTimeData(FALSE)
    /\ UNCHANGED <<apiVars, allocVars>>

\* the retry and manual refresh buttons
RetryLoad ==
    /\ loadTimeData(FALSE)
    /\ UNCHANGED <<currentWeek, apiVars, allocVars>>

\* the interval of startAutoRefresh fires
AutoRefreshTick ==
    /\ connectionStatus = "connected" /\ ~loading
    /\ loadTimeData(TRUE)
    /\ UNCHANGED <<currentWeek, apiVars, allocVars>>

\* api.checkConnection() resolves for a call: with true the call goes on to
\* api.getWeeklyTimeData with the week currentWeek holds now, with false it
\* throws
CheckConnectionResolves ==
    /\ \E k \in InFlight : \E isConnected \in BOOLEAN :
         /\ loads[k].pc = "checkConnection"
         /\ IF isConnected
            THEN /\ connectionStatus' = "connected"
                 /\ loads' = [loads EXCEPT ![k].pc = "getWeeklyTimeData",
                                           ![k].week = <<currentWeek>>]
                 /\ UNCHANGED <<timeData, loading, appError, batchFailed>>
            ELSE loadFails(k)
    /\ UNCHANGED <<currentWeek, apiVars, allocVars>>

\* api.getWeeklyTimeData settles for a call: resolved, its summary is
\* assigned to timeData; rejected, the catch block runs
GetWeeklyTimeDataSettles ==
    /\ \E k \in InFlight : \E resolved \in BOOLEAN :
         /\ loads[k].pc = "getWeeklyTimeData"
         /\ IF resolved
            THEN /\ timeData' = <<summaryOf(loads[k].week[1])>>
                 /\ loading' = IF loads[k].isAutoRefresh THEN loading ELSE FALSE
                 /\ loads' = [loads EXCEPT ![k].pc = "done"]
                 /\ UNCHANGED <<connectionStatus, appError, batchFailed>>
            ELSE loadFails(k)
    /\ UNCHANGED <<currentWeek, apiVars, allocVars>>

\* App.vue after onMounted: the first loadTimeData() is in flight
InitApp ==
    /\ currentWeek = 0
    /\ timeData = <<>>
    /\ loading = TRUE
    /\ appError = ""
    /\ connectionStatus = "checking"
    /\ loads = <<[isAutoRefresh |-> FALSE, pc |-> "checkConnection", week |-> <<>>]>>
    /\ batchFailed = FALSE

-----------------------------------------------------------------------------
(* Specifications *)

Init ==
    /\ dpc = "idle" /\ NoDay
    /\ wpc = "idle" /\ weekBuckets = <<>> /\ start = 0 /\ end = 0 /\ i = 0 /\ currentDate = 0
    /\ totalHours = 0 /\ dailyBreakdown = <<>> /\ weekResult = <<>> /\ weekError = <<>>
    /\ bucketRequests = 0 /\ eventRequests = <<>> /\ dayFailures = 0
    /\ InitAlloc
    /\ InitApp

\* one stand-alone day query
NextDay == DayCall \/ DayBucketsResponse \/ DayEventsResponse
SpecDay == Init /\ [][NextDay]_vars

\* one weekly query
NextWeek ==
    \/ WeekCall \/ WeekBucketsResponse
    \/ DayBucketsResponse \/ DayEventsResponse
    \/ WeekDayReturned \/ WeekDayThrown
SpecWeek == Init /\ [][NextWeek]_vars

\* the settings surface driving the allocator
NextAlloc ==
    \/ UpdateDayTarget \/ SetWeeklyTarget \/ ToggleLock
    \/ AutoBalance \/ ApplyPreset \/ SetFromLoggedData
    \/ WatcherRuns
SpecAlloc == Init /\ [][NextAlloc]_vars

\* the same, with the queued callback run by the event loop
SpecPersist == SpecAlloc /\ WF_vars(WatcherRuns)

\* a page that starts from what an earlier session or version left in
\* localStorage, is used for a few operations and is loaded again
MaxLoadedEdits == 2
InitLoad ==
    /\ dpc = "idle" /\ NoDay
    /\ wpc = "idle" /\ weekBuckets = <<>> /\ start = 0 /\ end = 0 /\ i = 0 /\ currentDate = 0
    /\ totalHours = 0 /\ dailyBreakdown = <<>> /\ weekResult = <<>> /\ weekError = <<>>
    /\ bucketRequests = 0 /\ eventRequests = <<>> /\ dayFailures = 0
    /\ InitStored
    /\ InitApp
NextLoad ==
    \/ edits < MaxLoadedEdits /\ UpdateDayTarget
    \/ edits < MaxLoadedEdits /\ SetWeeklyTarget
    \/ edits < MaxLoadedEdits /\ ToggleLock
    \/ edits < MaxLoadedEdits /\ AutoBalance
    \/ edits < MaxLoadedEdits /\ ApplyPreset
    \/ edits < MaxLoadedEdits /\ SetFromLoggedData
    \/ WatcherRuns
    \/ Reload
SpecLoad == InitLoad /\ [][NextLoad]_vars

\* targets set from presets and logged data, locked, and asked for by date
NextDates ==
    \/ GetDailyTargetForDate
    \/ SetFromLoggedData \/ ApplyPreset \/ ToggleLock
    \/ WatcherRuns
SpecDates == Init /\ [][NextDates]_vars

\* the page: week changes, retries, auto-refresh ticks and responses
NextApp ==
    \/ OnWeekChanged \/ RetryLoad \/ AutoRefreshTick
    \/ CheckConnectionResolves \/ GetWeeklyTimeDataSettles
SpecApp == Init /\ [][NextApp]_vars

\* one query of either kind; the allocator shares no state with the queries
Next == NextDay \/ NextWeek
Spec == Init /\ [][Next]_vars

-----------------------------------------------------------------------------
(* Properties of the day timeline (specification SpecDay) *)

\* the day query has returned a value
DayReturned == dpc = "returned"

\* C1: the merged active periods are sorted by start, pairwise disjoint, each
\* has end > start, and two consecutive ones are more than 1 second apart.
C1_MergedPeriodsDisjointSorted ==
    DayReturned =>
        /\ \A k \in 1..Len(mergedPeriods) : mergedPeriods[k].end > mergedPeriods[k].start
        /\ \A j, k \in 1..Len(mergedPeriods) :
             j < k => /\ mergedPeriods[j].start < mergedPeriods[k].start
                      /\ mergedPeriods[j].end < mergedPeriods[k].start
        /\ \A k \in 1..(Len(mergedPeriods) - 1) :
             mergedPeriods[k + 1].start - mergedPeriods[k].end > 1000

\* three active periods, two of which overlap, merged into two
C1_Witness ==
    /\ DayReturned
    /\ Len(activePeriods) = 3
    /\ Len(mergedPeriods) = 2
    /\ \E k \in 1..2 : activePeriods[k + 1].start < activePeriods[k].end

\* C2: in the merge loop the next period (in ascending start order) is fused
\* into the running period iff its start <= running end + 1 second; fusing
\* keeps the running start, sets the end to the later end and the duration to
\* end - start; otherwise the period is appended unchanged.  A 0.5 s gap gives
\* one period spanning both, a 2 s gap leaves two.
C2_FusionRule ==
    DayReturned =>
        /\ mergedPeriods = mergePrefix(activePeriods, Len(activePeriods))
        /\ \A n \in 1..(Len(activePeriods) - 1) :
             LET running == mergePrefix(activePeriods, n)
                 period == activePeriods[n + 1]
                 after == mergePrefix(activePeriods, n + 1)
                 last == running[Len(running)]
                 fused == period.start <= last.end + 1000
             IN  /\ fused <=> Len(after) = Len(running)
                 /\ fused =>
                      /\ SubSeq(after, 1, Len(after) - 1) = SubSeq(running, 1, Len(running) - 1)
                      /\ after[Len(after)].start = last.start
                      /\ after[Len(after)].end = Max(period.end, last.end)
                      /\ after[Len(after)].duration = after[Len(after)].end - last.start
                 /\ ~fused => after = Append(running, period)
        /\ Len(activePeriods) = 2 =>
             LET a == activePeriods[1]
                 b == activePeriods[2]
             IN  /\ b.start - a.end = 500 =>
                       mergedPeriods = <<[start |-> a.start, end |-> b.end,
                                          duration |-> b.end - a.start]>>
                 /\ b.start - a.end = 2000 => mergedPeriods = <<a, b>>

\* two periods 0.5 s apart fused into one
C2_Witness ==
    /\ DayReturned
    /\ Len(activePeriods) = 2
    /\ activePeriods[2].start - activePeriods[1].end = 500
    /\ Len(mergedPeriods) = 1

\* C3: a non-empty timeline is contiguous, alternates between active and
\* inactive entries, begins and ends with an active entry, has only entries
\* with end > start and duration = end - start, and lies within the day.
C3_TimelineContiguous ==
    (DayReturned /\ dayResult[1].events # <<>>) =>
        LET events == dayResult[1].events
            n == Len(events)
        IN  /\ \A k \in 1..(n - 1) :
                 /\ events[k].end = events[k + 1].start
                 /\ events[k].type # events[k + 1].type
            /\ events[1].type = "active"
            /\ events[n].type = "active"
            /\ \A k \in 1..n :
                 /\ events[k].type \in {"active", "inactive"}
                 /\ events[k].end > events[k].start
                 /\ events[k].duration = events[k].end - events[k].start
            /\ events[1].start >= StartOfDay(date)
            /\ events[n].end <= StartOfDay(date) + 86399999

\* a timeline with an inactive entry, clipped at both ends of the day
C3_Witness ==
    /\ DayReturned
    /\ Len(dayResult[1].events) = 3
    /\ dayResult[1].events[1].start = StartOfDay(date)
    /\ dayResult[1].events[3].end = EndOfDay(date)
    /\ \E k \in 1..Len(afkEvents) : afkEvents[k].timestamp < StartOfDay(date)
    /\ \E k \in 1..Len(afkEvents) :
         afkEvents[k].timestamp + afkEvents[k].duration > EndOfDay(date)

RECURSIVE SumOfType(_, _)
\* sum of the durations of the entries of one type
SumOfType(events, type) ==
    IF events = <<>> THEN 0
    ELSE (IF Head(events).type = type THEN Head(events).duration ELSE 0)
         + SumOfType(Tail(events), type)

\* C4: totalActiveSeconds and totalInactiveSeconds are the sums of the
\* durations of the active and of the inactive entries, and together they
\* span the timeline from its first start to its last end.
C4_TotalsMatchEntries ==
    DayReturned =>
        LET r == dayResult[1]
        IN  /\ r.totalActiveSeconds = SumOfType(r.events, "active")
            /\ r.totalInactiveSeconds = SumOfType(r.events, "inactive")
            /\ r.events # <<>> =>
                 r.totalActiveSeconds + r.totalInactiveSeconds
                   = r.events[Len(r.events)].end - r.events[1].start

\* totals of a timeline with fused periods and a gap
C4_Witness ==
    /\ DayReturned
    /\ Len(activePeriods) = 3
    /\ Len(mergedPeriods) = 2
    /\ dayResult[1].totalInactiveSeconds > 0
    /\ dayResult[1].totalActiveSeconds > 0

\* an event that contributes nothing: not active, no duration, or no part of
\* it inside the day
Contributes(event) ==
    /\ event.status = "not-afk"
    /\ event.duration > 0
    /\ event.timestamp + event.duration > StartOfDay(date)
    /\ event.timestamp < EndOfDay(date)

\* C5: when no fetched event is an active event with a positive duration and
\* a positive overlap with the day, the query returns (no error) an empty
\* events list and zero totals.
C5_EmptyDay ==
    (DayReturned /\ \A k \in 1..Len(afkEvents) : ~Contributes(afkEvents[k])) =>
        /\ dayError = <<>>
        /\ dayResult = <<[totalActiveSeconds |-> 0, totalInactiveSeconds |-> 0,
                          events |-> <<>>]>>

\* active events that all miss the day or have no duration
C5_Witness ==
    /\ DayReturned
    /\ dayResult[1].events = <<>>
    /\ \E k \in 1..Len(afkEvents) :
         afkEvents[k].status = "not-afk" /\ afkEvents[k].duration <= 0
    /\ \E k \in 1..Len(afkEvents) :
         /\ afkEvents[k].status = "not-afk" /\ afkEvents[k].duration > 0
         /\ afkEvents[k].timestamp + afkEvents[k].duration <= StartOfDay(date)

-----------------------------------------------------------------------------
(* Properties of the weekly summary (specification SpecWeek) *)

WeekReturned == wpc = "returned"

RECURSIVE SumHours(_)
\* sum of the hours of the entries of a daily breakdown
SumHours(breakdown) ==
    IF breakdown = <<>> THEN 0 ELSE Head(breakdown).hours + SumHours(Tail(breakdown))

\* totalHours minus the sum of the daily hours, in hundredths of an hour
RoundingGap == weekResult[1].totalHours - SumHours(weekResult[1].dailyBreakdown)

\* C6 as stated: totalHours differs from the sum of the seven daily hours by
\* at most 0.01.
C6_Original == WeekReturned => Abs(RoundingGap) <= 1

\* C6 as amended: totalHours differs from the sum of the seven daily hours by
\* at most 0.03 (each daily value and the total are rounded separately).
C6_TotalWithinThreeHundredths == WeekReturned => Abs(RoundingGap) <= 3

\* seven days of 17 s each: every day rounds to 0.00 h, the week to 0.03 h
C6_Witness ==
    /\ WeekReturned
    /\ weekResult[1].totalHours = 3
    /\ SumHours(weekResult[1].dailyBreakdown) = 0

\* C7: the summary has exactly 7 entries, dated with the 7 consecutive local
\* calendar days that begin at start's date, in order, whatever end is; start
\* is left as the caller passed it.
C7_SevenConsecutiveDays ==
    /\ wpc # "idle" => start \in WeekStarts
    /\ WeekReturned =>
        LET breakdown == weekResult[1].dailyBreakdown
        IN  /\ Len(breakdown) = 7
            /\ weekResult[1].startDate = start
            /\ \A k \in 1..7 :
                 breakdown[k].date = localDateString(StartOfDay(start) + (k - 1) * DayMs)
            /\ \A j, k \in 1..7 : j # k => breakdown[j].date # breakdown[k].date
            /\ start = 8 * DayMs =>
                 /\ breakdown[1].date = <<"2", "0", "2", "4", "-", "0", "2", "-", "2", "8">>
                 /\ breakdown[2].date = <<"2", "0", "2", "4", "-", "0", "2", "-", "2", "9">>
                 /\ breakdown[3].date = <<"2", "0", "2", "4", "-", "0", "3", "-", "0", "1">>
                 /\ breakdown[7].date = <<"2", "0", "2", "4", "-", "0", "3", "-", "0", "5">>

\* a week that runs over the end of February, queried with end = start
C7_Witness ==
    /\ WeekReturned
    /\ end = start
    /\ start = 8 * DayMs
    /\ Len(weekResult[1].dailyBreakdown) = 7

\* C8: when one day's query fails the weekly query fails with an ApiError and
\* no summary: nothing is recorded for the failed day, no later day is
\* queried, the failed day is not queried again; a summary that is returned
\* has 7 days, all of them fetched.
C8_WeekFailsAsAWhole ==
    /\ dayFailures <= 1
    /\ dayFailures = 1 =>
         /\ weekResult = <<>>
         /\ wpc \in {"loop", "thrown"}
         /\ wpc = "loop" => dpc = "thrown"
         /\ Len(dailyBreakdown) = i
         /\ bucketRequests = i + 2
         /\ Len(eventRequests) \in {i, i + 1}
         /\ wpc = "thrown" =>
              /\ weekError # <<>>
              /\ weekError[1].name = "ApiError"
              /\ dpc = "idle"
    /\ \A k \in 1..Len(eventRequests) :
         eventRequests[k].start = StartOfDay(start) + (k - 1) * DayMs
    /\ weekResult # <<>> =>
         /\ Len(weekResult[1].dailyBreakdown) = 7
         /\ Len(eventRequests) = 7
         /\ bucketRequests = 8
         /\ weekError = <<>>

\* the event fetch of the fourth day failed and the weekly query rejected
C8_Witness ==
    /\ wpc = "thrown"
    /\ dayFailures = 1
    /\ i = 3
    /\ Len(eventRequests) = 4
    /\ weekResult = <<>>

-----------------------------------------------------------------------------
(* Properties of both queries (specification Spec) *)

NoAfkBucket(buckets) == \A k \in 1..Len(buckets) : buckets[k].type # "afkstatus"

\* C9: when the bucket list holds no 'afkstatus' bucket, getDayTimelineData
\* and getWeeklyTimeData reject with an ApiError, fetch no events and return
\* nothing.
C9_NoAfkBucketIsFatal ==
    /\ (dayBuckets # <<>> /\ NoAfkBucket(dayBuckets[1])) =>
         /\ dayResult = <<>>
         /\ dayError # <<>>
         /\ dayError[1].name = "ApiError"
         /\ \A k \in 1..Len(eventRequests) : eventRequests[k].start # StartOfDay(date)
         /\ wpc = "idle" => dpc = "thrown"
         /\ wpc # "idle" =>
              /\ weekResult = <<>>
              /\ \/ wpc = "loop" /\ dpc = "thrown"
                 \/ wpc = "thrown" /\ weekError # <<>> /\ weekError[1].name = "ApiError"
    /\ (weekBuckets # <<>> /\ NoAfkBucket(weekBuckets[1])) =>
         /\ wpc = "thrown"
         /\ weekResult = <<>>
         /\ weekError # <<>>
         /\ weekError[1].name = "ApiError"
         /\ eventRequests = <<>>
         /\ bucketRequests = 1

\* a weekly query whose third day found a bucket list without an afk bucket
C9_Witness ==
    /\ wpc = "thrown"
    /\ i = 2
    /\ dayBuckets # <<>>
    /\ NoAfkBucket(dayBuckets[1])
    /\ Len(dayBuckets[1]) > 0
    /\ Len(eventRequests) = 2

-----------------------------------------------------------------------------
(* Target allocation: weekly target and the sum of the day targets *)

\* no weekday is locked
NoDayLocked == \A d \in Workdays : ~isLocked(d)

\* the sum of the five values dailyTargets reads
dailyTargetsSum == sumValues(getCustomDistribution(customTargets, weeklyTarget))

\* 0.01 hour
Tolerance == Hours(1, 100)

\* C10: in every state in which no day is locked, right after
\* setWeeklyTarget(h) with h > 0 the five dailyTargets values sum to h within
\* 0.01.  The code rescales only where the current sum is > 0 and otherwise
\* leaves the day targets as they were, so the statement fails after
\* setWeeklyTarget(0); setWeeklyTarget(40).
C10_SumIsWeeklyTarget ==
    (lastOp.name = "setWeeklyTarget" /\ lastOp.hours > 0 /\ NoDayLocked)
        => Abs(dailyTargetsSum - lastOp.hours) <= Tolerance

\* C11: weeklyTarget is strictly positive in every reachable state, a
\* setWeeklyTarget(h) with h <= 0 being rejected.  setWeeklyTarget stores
\* any number it is given, so the statement fails after setWeeklyTarget(0).
C11_WeeklyTargetPositive == weeklyTarget > 0

-----------------------------------------------------------------------------
(* Target allocation: updateDayTarget *)

\* the step is a call of the named allocator operation
Calls(name) == edits' = edits + 1 /\ lastOp'.name = name

\* C12: updateDayTarget(day, newHours) leaves every day's target,
\* weeklyTarget, lockedDays and mode unchanged when day is locked or is not
\* one of monday..friday, for every newHours.
C12_LockedOrUnknownDayIsNoOp ==
    [][(Calls("updateDayTarget")
            /\ (lastOp'.day \notin Workdays \/ isLocked(lastOp'.day)))
        => UNCHANGED <<weeklyTarget, customTargets, lockedDays, mode>>]_vars

\* updateDayTarget was just called on a locked day with hours other than
\* that day's target
C12_Witness ==
    /\ lastOp.name = "updateDayTarget"
    /\ isLocked(lastOp.day)
    /\ lastOp.hours # hoursOf(customTargets, lastOp.day)

\* the sum of the five daily targets the call found
sumBefore == sumValues(getCustomDistribution(customTargets, weeklyTarget))

\* the compensation of updateDayTarget(day, x) with four other days would
\* take some other day below the 5 minute floor
Floored(day, x) ==
    LET before == getCustomDistribution(customTargets, weeklyTarget)
    IN  \E d \in Workdays \ {day} :
            4 * (hoursOf(before, d) - MinimumHours) < x - hoursOf(before, day)

\* C13 as stated: with no day locked, updateDayTarget(day, x) leaves the sum
\* of the five daily targets unchanged within 0.01 for every weekday and
\* every x.  It fails where the floor of 5 minutes raises another day:
\* updateDayTarget(monday, 40) on the default targets gives 40 + 4 * 5/60.
C13_Original ==
    [][(Calls("updateDayTarget") /\ NoDayLocked /\ lastOp'.day \in Workdays)
        => Abs(sumValues(customTargets') - sumBefore) <= Tolerance]_vars

\* C13, amended: with no day locked, updateDayTarget(day, x) leaves the sum
\* of the five daily targets unchanged where no other day's compensated
\* value old - (x - oldOfDay) / 4 is below 5/60, and makes the sum larger
\* where one is.
C13_SumKeptUnlessFloored ==
    [][(Calls("updateDayTarget") /\ NoDayLocked /\ lastOp'.day \in Workdays)
        => IF Floored(lastOp'.day, lastOp'.hours)
           THEN sumValues(customTargets') > sumBefore
           ELSE sumValues(customTargets') = sumBefore]_vars

\* the first call is updateDayTarget(day, 0): the day is at 0, the four
\* others have gone up from their default and the sum is still 34.17
C13_Witness ==
    /\ edits = 1 /\ lastOp.name = "updateDayTarget" /\ lastOp.day \in Workdays
    /\ NoDayLocked
    /\ lastOp.hours = 0 /\ customTargets[lastOp.day] = 0
    /\ \A d \in Workdays \ {lastOp.day} :
           customTargets[d] > DefaultWeeklyTarget \div Len(WORKDAYS)
    /\ dailyTargetsSum = DefaultWeeklyTarget

-----------------------------------------------------------------------------
(* Target allocation: locks, autoBalance, applyPreset, setFromLoggedData *)

\* the operations a lock is to freeze a day against
RedistributingOps == {"updateDayTarget", "autoBalance", "applyPreset", "setFromLoggedData"}

\* C14: while a day is locked its target is not changed by updateDayTarget
\* (on any day), autoBalance, applyPreset (any preset) or setFromLoggedData
\* (any summary); so with all other days locked updateDayTarget changes only
\* the edited day.
C14_LockedDaysKeepTheirTargets ==
    [][(edits' = edits + 1 /\ lastOp'.name \in RedistributingOps)
        => \A d \in Workdays :
               isLocked(d) => hoursOf(customTargets', d) = hoursOf(customTargets, d)]_vars

\* one of these operations has just moved an unlocked day away from a locked
\* day that still has the target both had when the manager was constructed
C14_Witness ==
    /\ lastOp.name \in RedistributingOps \ {"updateDayTarget"}
    /\ weeklyTarget = DefaultWeeklyTarget
    /\ \E d \in Workdays :
           /\ isLocked(d)
           /\ customTargets[d] = DefaultWeeklyTarget \div Len(WORKDAYS)
           /\ \E e \in Workdays : ~isLocked(e) /\ customTargets[e] # customTargets[d]

\* the product a * b as <<quotient, remainder>> of its division by
\* UnitsPerHour: two products are equal exactly where these pairs are
Times(a, b) == MulDiv(a, b, UnitsPerHour)

\* the targets of the unlocked days are in the ratios of the pattern
InRatiosOf(targets, pattern) ==
    \A d \in Workdays : \A e \in Workdays :
        (~isLocked(d) /\ ~isLocked(e))
            => Times(hoursOf(targets, d), hoursOf(pattern, e))
                   = Times(hoursOf(targets, e), hoursOf(pattern, d))

\* at least one day is unlocked and what the locked days leave of the weekly
\* target gives every unlocked day 5/60
Feasible ==
    /\ Len(unlockedDays) > 0
    /\ weeklyTarget - lockedTotal(customTargets) >= Len(unlockedDays) * MinimumHours

\* C15: after autoBalance() in a state with at least one unlocked day and
\* weeklyTarget - sum(locked) >= (number of unlocked days) * 5/60, the
\* unlocked days' targets sum to weeklyTarget - sum(locked), the five days sum
\* to weeklyTarget, and the unlocked days keep their proportions.  The code
\* raises every scaled value below 5/60 to 5/60, so the statement fails after
\* updateDayTarget(monday, 0); autoBalance().
C15_AutoBalanceMeetsWeeklyTarget ==
    [][(Calls("autoBalance") /\ Feasible)
        => /\ sumOver(customTargets', unlockedDays, Len(unlockedDays))
                  = weeklyTarget - lockedTotal(customTargets)
           /\ sumValues(customTargets') = weeklyTarget
           /\ InRatiosOf(customTargets', customTargets)]_vars

\* C16: after applyPreset(p), for every preset and every lock configuration
\* with at least one unlocked day and weeklyTarget - lockedTotal >= (number
\* of unlocked days) * 5/60, the unlocked days' targets sum to exactly
\* weeklyTarget - lockedTotal and are in the ratios of the preset.  The code
\* raises every scaled value below 5/60 to 5/60, so the statement fails after
\* setWeeklyTarget(1139/2400); applyPreset(frontLoaded).
C16_PresetConsumesRemainingTarget ==
    [][(Calls("applyPreset") /\ Feasible)
        => /\ sumOver(customTargets', unlockedDays, Len(unlockedDays))
                  = weeklyTarget - lockedTotal(customTargets)
           /\ InRatiosOf(customTargets', presetTargets(lastOp'.preset, weeklyTarget))]_vars

\* C17: applyPreset(p) called right after applyPreset(p) leaves the per-day
\* targets as the first call left them, for every preset and every lock
\* configuration.
C17_ApplyPresetIdempotent ==
    [][(Calls("applyPreset") /\ lastOp.name = "applyPreset"
            /\ lastOp.preset = lastOp'.preset)
        => customTargets' = customTargets]_vars

\* applyPreset(frontLoaded) has just been called for the second time in a
\* row, with a day unlocked, and the targets are those of the preset
C17_Witness ==
    /\ lastOp.name = "applyPreset" /\ lastOp.repeated
    /\ lastOp.preset = "frontLoaded"
    /\ Len(unlockedDays) = Len(WORKDAYS)
    /\ customTargets = presetTargets("frontLoaded", weeklyTarget)

\* the day of the week of the calendar date a date string names
weekdayOf(str) ==
    dayNames[((DaysFromCivil(parseNumber(SubSeq(str, 1, 4)), parseNumber(SubSeq(str, 6, 7)),
                            parseNumber(SubSeq(str, 9, 10))) + 4) % 7) + 1]

\* the entries of a breakdown that are for the day and have logged hours > 0
loggedEntries(breakdown, day) ==
    {k \in 1..Len(breakdown) : weekdayOf(breakdown[k].date) = day /\ breakdown[k].hours > 0}

\* C18: setFromLoggedData(summary) sets the target of each unlocked weekday
\* whose logged hours are > 0 to max(5/60, the hours rounded to a multiple of
\* 1/12) and leaves every other weekday, weeklyTarget and lockedDays as they
\* were; entries for Saturday and Sunday change nothing.  The code takes the
\* weekday from new Date("YYYY-MM-DD").getDay(), which west of UTC is the day
\* before, so the statement fails on a host at UTC-5.
C18_LoggedHoursSetTheirWeekday ==
    [][Calls("setFromLoggedData")
        => /\ UNCHANGED <<weeklyTarget, lockedDays>>
           /\ \A day \in Workdays :
                  LET entries == loggedEntries(lastOp'.summary.dailyBreakdown, day)
                  IN  IF ~isLocked(day) /\ entries # {}
                      THEN \E k \in entries :
                               hoursOf(customTargets', day)
                                   = roundedHours(lastOp'.summary.dailyBreakdown[k].hours)
                      ELSE hoursOf(customTargets', day) = hoursOf(customTargets, day)]_vars

-----------------------------------------------------------------------------
(* Target allocation: persistence (specification SpecPersist) *)

\* C19: every allocator operation that changes weeklyTarget, customTargets
\* or lockedDays queues the watcher's callback; a queued callback eventually
\* runs, which updates lastModified and issues a save; and once a save has
\* succeeded and nothing is queued, the stored configuration is the one in
\* memory.
C19_ChangesArePersisted ==
    /\ [][(<<weeklyTarget, customTargets, lockedDays>>' # <<weeklyTarget, customTargets, lockedDays>>)
            => pending']_vars
    /\ [][(pending /\ ~pending')
            => lastModified' = edits /\ lastSave' \in {"ok", "failed"}]_vars
    /\ (pending ~> (~pending /\ lastModified = edits))
    /\ []((~pending /\ lastSave = "ok") => stored = <<config(lastModified)>>)

\* an operation has changed the day targets and the save issued for it has
\* succeeded
C19_Witness ==
    /\ ~pending /\ lastSave = "ok" /\ edits > 0 /\ lastModified = edits
    /\ stored = <<config(lastModified)>>
    /\ customTargets # equalTargets(DefaultWeeklyTarget)

\* C20: a save that fails leaves the configuration in memory as the
\* operation made it, is not repeated (the callback is not queued again and
\* localStorage keeps what it held) and leaves the following operations
\* callable.
C20_FailedSaveIsNotFatal ==
    /\ [][(pending /\ lastSave' = "failed" /\ lastModified' = edits /\ edits' = edits)
            => /\ UNCHANGED <<weeklyTarget, customTargets, lockedDays, mode>>
               /\ stored' = stored
               /\ ~pending']_vars
    /\ []((lastSave = "failed" /\ ~pending /\ edits < MaxEdits)
            => ENABLED ToggleLock /\ ENABLED UpdateDayTarget /\ ENABLED SetFromLoggedData)

\* the save of a changed configuration has failed: memory holds the change,
\* localStorage holds nothing, and nothing is queued
C20_Witness ==
    /\ lastSave = "failed" /\ ~pending /\ stored = <<>>
    /\ customTargets # equalTargets(DefaultWeeklyTarget)

-----------------------------------------------------------------------------
(* Target allocation: setWeeklyTarget *)

\* C23: setWeeklyTarget(h) with h > 0 and a current total > 0 multiplies every
\* day's target, locked days included, by h / (current total), so the ratio
\* between any two days' targets is unchanged, and it leaves every lock flag
\* as it was.
C23_RescaleKeepsShape ==
    [][(Calls("setWeeklyTarget") /\ lastOp'.hours > 0 /\ sumValues(customTargets) > 0)
        => /\ \A d \in Workdays :
                  Times(hoursOf(customTargets', d), sumValues(customTargets))
                      = Times(hoursOf(customTargets, d), lastOp'.hours)
           /\ \A d \in Workdays : \A e \in Workdays :
                  Times(hoursOf(customTargets', d), hoursOf(customTargets, e))
                      = Times(hoursOf(customTargets', e), hoursOf(customTargets, d))
           /\ lockedDays' = lockedDays]_vars

\* setWeeklyTarget(40) was just called on targets of unequal size with a
\* locked day, after toggleLock and updateDayTarget(day, 0): the locked day
\* has gone from 6.834 to 8 hours like the others in proportion
C23_Witness ==
    /\ lastOp.name = "setWeeklyTarget" /\ lastOp.hours = Hours(40, 1)
    /\ sumValues(customTargets) = Hours(40, 1)
    /\ \E d \in Workdays : \E e \in Workdays :
           /\ isLocked(d) /\ customTargets[d] = Hours(8, 1)
           /\ customTargets[e] = 0

\* C24: setWeeklyTarget(h) with h > 0, called where the current sum of the
\* day targets is not > 0, sets every weekday's target to h / 5.  The code
\* has no branch for that case and leaves the day targets as they were, so
\* the statement fails after setWeeklyTarget(0); setWeeklyTarget(40).
C24_EqualSplitWhenTotalNotPositive ==
    [][(Calls("setWeeklyTarget") /\ lastOp'.hours > 0 /\ sumValues(customTargets) <= 0)
        => \A d \in Workdays :
               Len(WORKDAYS) * hoursOf(customTargets', d) = lastOp'.hours]_vars

-----------------------------------------------------------------------------
(* Target allocation: the 5 minute floor *)

\* every weekday's target is at least 5/60
AllAtLeastMinimum(targets) == \A d \in Workdays : hoursOf(targets, d) >= MinimumHours

\* the step is a call the settings surface can make: setWeeklyTarget with
\* h > 0, updateDayTarget with newHours >= 0, or one of the other operations
InContract ==
    /\ edits' = edits + 1
    /\ lastOp'.name = "setWeeklyTarget" => lastOp'.hours > 0
    /\ lastOp'.name = "updateDayTarget" => lastOp'.hours >= 0

\* C26 as stated: an operation called within its contract (setWeeklyTarget
\* with h > 0, updateDayTarget with newHours >= 0, autoBalance, applyPreset,
\* setFromLoggedData, toggleLock) in a state where every weekday's target is
\* at least 5/60 leaves every weekday's target at least 5/60.  It fails for
\* updateDayTarget(day, 0) on the default configuration, which stores 0 for
\* the edited day.
C26_Original ==
    [][(InContract /\ AllAtLeastMinimum(customTargets))
        => AllAtLeastMinimum(customTargets')]_vars

\* C26, amended: no weekday's target is ever negative; the other unlocked
\* days of an updateDayTarget, the unlocked days of autoBalance and
\* applyPreset and the days setFromLoggedData sets are at least 5/60 after
\* the call; the day updateDayTarget edits takes the value given, and
\* setWeeklyTarget scales by h / total, whatever comes out.
C26_FlooredExceptEditedAndRescaled ==
    /\ [](\A d \in Workdays : hoursOf(customTargets, d) >= 0)
    /\ [][(Calls("updateDayTarget") /\ ~returnsEarly(lastOp'.day))
            => /\ hoursOf(customTargets', lastOp'.day) = lastOp'.hours
               /\ \A d \in otherDays(lastOp'.day) :
                      hoursOf(customTargets', d) >= MinimumHours]_vars
    /\ [][(Calls("autoBalance") \/ Calls("applyPreset"))
            => \A d \in Workdays :
                   ~isLocked(d) => hoursOf(customTargets', d) >= MinimumHours]_vars
    /\ [][Calls("setFromLoggedData")
            => \A d \in Workdays :
                   \/ hoursOf(customTargets', d) = hoursOf(customTargets, d)
                   \/ hoursOf(customTargets', d) >= MinimumHours]_vars

\* updateDayTarget(day, 0) has stored 0 for the edited day, and autoBalance
\* has then raised that day to the floor of 5/60
C26_Witness ==
    /\ lastOp.name = "autoBalance" /\ edits = 2
    /\ NoDayLocked
    /\ \E d \in Workdays :
           /\ customTargets[d] = MinimumHours
           /\ \A e \in Workdays \ {d} : customTargets[e] > Hours(8, 1)

-----------------------------------------------------------------------------
(* Target allocation: construction and reload (specification SpecLoad) *)

\* the manager has just been constructed, and localStorage still holds what
\* it was constructed from
JustConstructed == lastOp.name = "constructor" /\ lastSave = "none"

\* localStorage holds an item that has the field
Stores(f) == stored # <<>> /\ f \in DOMAIN stored[1]

\* C21: where customTargets is empty at construction (nothing stored, or an
\* item without day values) it is populated with weeklyTarget / 5 for each
\* of monday..friday, with the stored weeklyTarget if there is one; a stored
\* customTargets that is not empty is what the manager has.
C21_EmptyTargetsGetEqualSplit ==
    JustConstructed
        => IF Stores("customTargets") /\ DOMAIN stored[1].customTargets # {}
           THEN customTargets = stored[1].customTargets
           ELSE /\ DOMAIN customTargets = Workdays
                /\ \A d \in Workdays :
                       Len(WORKDAYS) * customTargets[d]
                           = IF Stores("weeklyTarget") THEN stored[1].weeklyTarget
                             ELSE DefaultWeeklyTarget

\* the manager was constructed from an item that has a weekly target of 40
\* hours and no day values: every day is 8 hours
C21_Witness ==
    /\ JustConstructed
    /\ Stores("weeklyTarget") /\ ~Stores("customTargets")
    /\ stored[1].weeklyTarget = Hours(40, 1)
    /\ \A d \in Workdays : customTargets[d] = Hours(8, 1)

\* the days that are not locked, and the sum of the targets of those that are
Unlocked == {d \in Workdays : ~isLocked(d)}
LockedSum ==
    sumValues([d \in Workdays |-> IF isLocked(d) THEN hoursOf(customTargets, d) ELSE 0])

\* C25: autoBalance() and applyPreset(p) set every unlocked day to exactly
\* 5/60 where weeklyTarget - sum(locked) is <= 0 or less than (number of
\* unlocked days) * 5/60; where the unlocked days sum to 0 and the remaining
\* target is sufficient, autoBalance gives every unlocked day (remaining
\* target) / (number of unlocked days); where every day is locked both
\* leave every day value as it was.
C25_FloorEqualShareOrNoChange ==
    [][(Calls("autoBalance") \/ Calls("applyPreset"))
        => LET n == Cardinality(Unlocked)
               remaining == weeklyTarget - LockedSum
               insufficient == remaining <= 0 \/ remaining < n * MinimumHours
           IN  /\ n = 0 => \A d \in Workdays :
                               hoursOf(customTargets', d) = hoursOf(customTargets, d)
               /\ (n > 0 /\ insufficient)
                      => \A d \in Unlocked : hoursOf(customTargets', d) = MinimumHours
               /\ (Calls("autoBalance") /\ n > 0 /\ ~insufficient
                        /\ \A d \in Unlocked : hoursOf(customTargets, d) = 0)
                      => \A d \in Unlocked : n * hoursOf(customTargets', d) = remaining]_vars

\* autoBalance or applyPreset has just been called with a weekly target of
\* 0 and the locked days of the stored item: monday, the unlocked day, is at
\* 5/60 and the locked days are where the preset put them
C25_Witness ==
    /\ lastOp.name \in {"autoBalance", "applyPreset"}
    /\ weeklyTarget - LockedSum <= 0
    /\ Unlocked = {"monday"} /\ customTargets["monday"] = MinimumHours
    /\ customTargets["tuesday"] = 0

\* autoBalance has just given monday, unlocked and at 0, the 8 hours the
\* locked days leave of 34.17
C25_EqualShareReached ==
    /\ lastOp.name = "autoBalance" /\ edits = 2
    /\ weeklyTarget = DefaultWeeklyTarget
    /\ Unlocked = {"monday"} /\ customTargets["monday"] = Hours(8, 1)
    /\ customTargets["friday"] = Hours(517, 100)

\* autoBalance or applyPreset has just been called with every day locked
C25_AllLockedReached ==
    /\ lastOp.name \in {"autoBalance", "applyPreset"}
    /\ Unlocked = {}

\* the step constructs a new manager from what localStorage holds
Reloads ==
    /\ lastOp'.name = "constructor" /\ lastSave' = "none"
    /\ UNCHANGED <<edits, stored>>

\* C28: saving the configuration and then constructing a new manager from
\* the stored value restores the same weeklyTarget, the same five
\* customTargets values and the same lockedDays flags; an item of the older
\* version with mode 'equal' and no customTargets loads as mode 'custom'
\* with each weekday at its weeklyTarget / 5.
C28_SaveLoadRoundTrip ==
    /\ [][(Reloads /\ stored = <<config(lastModified)>>)
            => /\ weeklyTarget' = weeklyTarget
               /\ \A d \in Workdays : hoursOf(customTargets', d) = hoursOf(customTargets, d)
               /\ lockedDays' = lockedDays]_vars
    /\ []((JustConstructed /\ Stores("mode") /\ stored[1].mode = "equal"
              /\ ~hasKeys(stored[1], "customTargets"))
            => /\ mode = "custom"
               /\ \A d \in Workdays :
                      Len(WORKDAYS) * hoursOf(customTargets, d) = stored[1].weeklyTarget)

\* a manager has been constructed from the item the session before saved
\* after two operations, one of them a lock: it has that item's lock and
\* day values, which are not the initial ones
C28_Witness ==
    /\ JustConstructed /\ edits = 2
    /\ stored # <<>> /\ DOMAIN stored[1] = DOMAIN config(0)
    /\ stored[1].customTargets = customTargets
    /\ stored[1].lockedDays = lockedDays /\ stored[1].weeklyTarget = weeklyTarget
    /\ isLocked("monday") /\ customTargets["monday"] = Hours(40, 1)

-----------------------------------------------------------------------------
(* Target allocation: dates and weekdays (specification SpecDates) *)

\* C22: for every local calendar date D, written as the local date string
\* getWeeklyTimeData produces, and every offset of the host from UTC,
\* getDailyTargetForDate(D) returns 0 where D is a Saturday or Sunday and the
\* configured target of D's own weekday otherwise, and setFromLoggedData
\* changes only the weekdays of the dates that have logged hours.  The code
\* takes the weekday from new Date("YYYY-MM-DD").getDay(), which west of UTC
\* is the day before: at UTC-5 Monday 2024-02-19 gets 0 and Saturday
\* 2024-02-24 gets friday's target.
C22_WeekdayOfLocalDate ==
    /\ [](lastOp.name = "getDailyTargetForDate"
            => lastOp.hours
                   = IF weekdayOf(lastOp.date) \in {"saturday", "sunday"} THEN 0
                     ELSE hoursOf(getCustomDistribution(customTargets, weeklyTarget),
                                  weekdayOf(lastOp.date)))
    /\ [][Calls("setFromLoggedData")
            => \A day \in Workdays :
                   hoursOf(customTargets', day) # hoursOf(customTargets, day)
                       => loggedEntries(lastOp'.summary.dailyBreakdown, day) # {}]_vars

-----------------------------------------------------------------------------
(* App.vue: the week shown (specification SpecApp) *)

\* C27: whatever the interleaving of week changes, retries, auto-refresh
\* ticks and response arrivals, once every loadTimeData call in flight has
\* completed successfully timeData holds the summary of the week currentWeek
\* holds.  loadTimeData assigns whatever response arrives last, so the
\* summary of an earlier week that arrives after the later week's stays in
\* timeData.
C27_TimeDataIsOfCurrentWeek ==
    (InFlight = {} /\ ~batchFailed) => timeData = <<summaryOf(currentWeek)>>

-----------------------------------------------------------------------------
(* getWeeklyTimeData against getDayTimelineData (specification SpecWeek) *)

\* C29: getWeeklyTimeData and getDayTimelineData agree on data availability:
\* the weekly query does not fail on a bucket list with which the day query
\* goes on (one that names an afkstatus bucket), and the hours it records
\* for a day are the day's totalActiveSeconds / 3600 rounded to 2 decimals
\* (at most half a hundredth of an hour, 18 s, away).  The weekly query
\* also wants a currentwindow bucket, which it never reads.
C29_WeekSucceedsWhereDaysSucceed ==
    [][/\ (wpc = "getBuckets" /\ wpc' = "thrown"
           /\ weekError' = <<ApiError("Required buckets not found")>>)
          => find(weekBuckets'[1], "afkstatus") = <<>>
       /\ (wpc = "loop" /\ Len(dailyBreakdown') = Len(dailyBreakdown) + 1)
          => LET hours == dailyBreakdown'[Len(dailyBreakdown')].hours
                 unit == (SecondsPerHour * MsPerSecond) \div 100
             IN  2 * Abs(hours * unit - dayResult[1].totalActiveSeconds) <= unit]_vars

-----------------------------------------------------------------------------
(* getDayTimelineData: the order of the fetched events (specification SpecDay) *)

\* the merged periods and the result getDayTimelineData computes for the
\* queried day when the server sends the events in this order
computedFor(events) ==
    LET dayStart == StartOfDay(date)
        dayEnd == EndOfDay(date)
        activeEvents == filterActive(events)
        fused == mergeAll(sortPeriods(collectPeriods(activeEvents, dayStart, dayEnd)))
    IN  [mergedPeriods |-> fused, result |-> buildTimeline(activeEvents, fused)]

\* a is sent before b in the order by timestamp, then duration, then status
sentBefore(a, b) ==
    \/ a.timestamp < b.timestamp
    \/ a.timestamp = b.timestamp /\ a.duration < b.duration
    \/ a.timestamp = b.timestamp /\ a.duration = b.duration
       /\ a.status = "afk" /\ b.status # "afk"

RECURSIVE placed(_, _)
placed(ordered, e) ==
    IF ordered = <<>> THEN <<e>>
    ELSE IF sentBefore(e, Head(ordered)) THEN <<e>> \o ordered
    ELSE <<Head(ordered)>> \o placed(Tail(ordered), e)

\* the same events in the one order of them that sentBefore gives: every
\* permutation of a list of events has the same inOneOrder
RECURSIVE inOneOrder(_)
inOneOrder(events) ==
    IF events = <<>> THEN <<>> ELSE placed(inOneOrder(Tail(events)), Head(events))

\* C30: the merged periods, the events list and the totals getDayTimelineData
\* returns do not depend on the order in which the server sends the day's
\* events: whatever the order of the fetched events, events with equal start
\* times included, the query gives what it gives for the same events sent in
\* one fixed order, so every permutation of them gives the same.
C30_OrderOfEventsIrrelevant ==
    DayReturned =>
        computedFor(inOneOrder(afkEvents))
          = [mergedPeriods |-> mergedPeriods, result |-> dayResult[1]]

\* three periods of which two begin together, the longer one sent first, so
\* that the sort leaves them out of the order of their ends, and a third
\* that is not fused with them
C30_Witness ==
    /\ DayReturned
    /\ Len(activePeriods) = 3
    /\ \E j \in 1..2 :
         /\ activePeriods[j].start = activePeriods[j + 1].start
         /\ activePeriods[j].end > activePeriods[j + 1].end
    /\ Len(mergedPeriods) = 2
    /\ dayResult[1].totalInactiveSeconds > 0

=============================================================================
